---- MODULE Spec2Model ----
(***************************************************************************)
(* A model of pyconfig (src/pyconfig/__init__.py): the process-wide        *)
(* settings store (Config), its accessor functions and its case policy,    *)
(* the load pipeline, the etcd adapter and its watcher thread.             *)
(*                                                                         *)
(* A Python value is a record: None, True, False, an integer, a string    *)
(* (Str) or an opaque object (Obj).                                        *)
(***************************************************************************)
EXTENDS Integers, Sequences, FiniteSets, TLC

VARIABLES
    settings,      \* Config._self["settings"]: stored key -> value
    last,          \* the accessor call that was made last, and its outcome
                   \*   (cs: the case policy in force when it was made;
                   \*    afterFail: a set() made right after a get() of the
                   \*    same key argument raised LookupError)
    sticky,        \* history: stored key -> the default a get() stored there
    cfg_init,      \* Config._self["_init"]
    reload_hooks,  \* Config._self["reload_hooks"]
    adapter,       \* etcd._self and the attributes etcd.__init__ assigns
    threads,       \* the Watcher threads: "new" (not created yet), "started",
                   \*   "watching", "dead"
    env,           \* what the process runs in: plugin entry points, modules,
                   \*   environment variables, backend library, remote store
    pc,            \* where the foreground thread is inside Config.load
    call,          \* the foreground call that started the load
    outcome,       \* how that load ended: "none", "running", "ok", "raised"
    wlog,          \* history: the writes set() made during that load
    hook_calls,    \* history: the hooks called during that load
    ctor_calls,    \* history: Config() constructions made
    ctor_loads,    \* history: loads that Config.__init__ started
    race,          \* one get() and one set() running in two threads: their
                   \*   arguments, locals and positions
    acall,         \* the call the application made last on the adapter or
                   \*   on Config._update, its arguments and its outcome
    feed           \* the change feed of the watcher: the prefix it was
                   \*   subscribed with and the event taken from it last

vars == <<settings, last, sticky, cfg_init, reload_hooks, adapter, threads,
          env, pc, call, outcome, wlog, hook_calls, ctor_calls, ctor_loads,
          race, acall, feed>>

storeVars == <<settings, last, sticky>>

loadVars == <<cfg_init, reload_hooks, adapter, threads, env, pc, call,
              outcome, wlog, hook_calls, ctor_calls, ctor_loads, acall,
              feed>>

-----------------------------------------------------------------------------
(* Strings *)

(* A Python string is the sequence of its words and separator characters    *)
(* (".", "_", "/", ...): "pyconfig.case_sensitive" is                       *)
(* <<"pyconfig", ".", "case", "_", "sensitive">>.  The words with an        *)
(* upper-case letter that the model uses, and their lower case:             *)
UpperWords == <<"Ab", "Pyconfig", "Case", "Sensitive", "Ns", "Cfg", "Base">>

LowerWords == <<"ab", "pyconfig", "case", "sensitive", "ns", "cfg", "base">>

\* str.lower() on one word or separator
LowerWord(w) ==
    IF \E i \in DOMAIN UpperWords : UpperWords[i] = w
    THEN LowerWords[CHOOSE i \in DOMAIN UpperWords : UpperWords[i] = w]
    ELSE w

\* str.lower()
Lower(str) == [i \in DOMAIN str |-> LowerWord(str[i])]

\* "pyconfig.case_sensitive"
CASE_KEY == <<"pyconfig", ".", "case", "_", "sensitive">>

\* "Pyconfig.Case_Sensitive": the same key in another letter case
CASE_KEY_MIXED == <<"Pyconfig", ".", "Case", "_", "Sensitive">>

\* "Ab" and "ab": an ordinary key with an upper-case letter, and its lower case
KEY_Ab == <<"Ab">>

KEY_ab == <<"ab">>

\* "pyconfig.etcd.prefix", "pyconfig.inherit.depth", "pyconfig.etcd.watch"
PREFIX_KEY == <<"pyconfig", ".", "etcd", ".", "prefix">>

DEPTH_KEY == <<"pyconfig", ".", "inherit", ".", "depth">>

WATCH_KEY == <<"pyconfig", ".", "etcd", ".", "watch">>

-----------------------------------------------------------------------------
(* Values *)

None == [t |-> "None"]

PyTrue == [t |-> "True"]

PyFalse == [t |-> "False"]

PyInt(n) == [t |-> "int", n |-> n]

Str(s) == [t |-> "str", s |-> s]

Obj(id) == [t |-> "obj", id |-> id]

\* Python truthiness
Truthy(v) ==
    CASE v.t = "None" -> FALSE
      [] v.t = "False" -> FALSE
      [] v.t = "int" -> v.n # 0
      [] v.t = "str" -> v.s # <<>>
      [] OTHER -> TRUE

\* The empty dict
EmptyDict == [k \in {} |-> None]

\* dict[k] = v
DictPut(d, k, v) == [x \in DOMAIN d \cup {k} |-> IF x = k THEN v ELSE d[x]]

\* dict.get(k, default)
DictGet(d, k, default) == IF k \in DOMAIN d THEN d[k] ELSE default

\* a dict without key k
DictDel(d, k) == [x \in DOMAIN d \ {k} |-> d[x]]

-----------------------------------------------------------------------------
(* Config: the settings store *)

\* self.settings.get("pyconfig.case_sensitive", False)
CaseSensitive(s) == Truthy(DictGet(s, CASE_KEY, PyFalse))

\* the key normalisation that opens set() and get()
NormalizeAlwaysLower(s, name) == Lower(name)

Normalize(s, name) == IF ~CaseSensitive(s) THEN Lower(name) ELSE name

\* Config.set: the mapping after set(name, value)
ConfigSetRenormalizes(s, name, value) ==
    LET put == DictPut(s, Normalize(s, name), value) IN
    [k \in {Normalize(put, x) : x \in DOMAIN put} |->
        put[CHOOSE x \in DOMAIN put : Normalize(put, x) = k]]

ConfigSet(s, name, value) == DictPut(s, Normalize(s, name), value)

\* Config.get: the mapping after the call, what it returned, whether it raised
ConfigGetOverwrites(s, name, default, allow_default) ==
    LET n == Normalize(s, name) IN
    [settings |-> DictPut(s, n, default), ret |-> default, raised |-> FALSE]

ConfigGet(s, name, default, allow_default) ==
    LET n == Normalize(s, name) IN
    IF n \notin DOMAIN s
    THEN IF ~allow_default
         THEN [settings |-> s, ret |-> None, raised |-> TRUE]
         ELSE [settings |-> DictPut(s, n, default),
               ret |-> DictPut(s, n, default)[n], raised |-> FALSE]
    ELSE [settings |-> s, ret |-> s[n], raised |-> FALSE]

\* Config.clear
ConfigClearKeepsPolicy(s) == [k \in DOMAIN s \cap {CASE_KEY} |-> s[k]]

ConfigClear(s) == EmptyDict

-----------------------------------------------------------------------------
(* More strings: prefixes and remote keys, "/config/ab" being              *)
(* <<"/", "config", "/", "ab">>                                            *)

\* s.startswith(p)
StartsWith(s, p) == Len(s) >= Len(p) /\ SubSeq(s, 1, Len(p)) = p

\* s[n:]
DropFirst(s, n) == SubSeq(s, n + 1, Len(s))

RECURSIVE LStrip(_)
\* s.lstrip("/")
LStrip(s) == IF s # <<>> /\ Head(s) = "/" THEN LStrip(Tail(s)) ELSE s

RECURSIVE RStrip(_)
\* s.rstrip("/")
RStrip(s) ==
    IF s # <<>> /\ s[Len(s)] = "/" THEN RStrip(SubSeq(s, 1, Len(s) - 1)) ELSE s

\* s.strip("/")
Strip(s) == RStrip(LStrip(s))

\* "/" + prefix.strip("/") + "/"
NormPrefixNoStrip(prefix) == <<"/">> \o prefix \o <<"/">>

NormPrefix(prefix) == <<"/">> \o Strip(prefix) \o <<"/">>

\* "/config/", the prefix used when none is set
DEFAULT_PREFIX == <<"/", "config", "/">>

\* "pyconfig.etcd.hosts", "config.inherit"
HOSTS_KEY == <<"pyconfig", ".", "etcd", ".", "hosts">>

INHERIT_KEY == <<"config", ".", "inherit">>

\* the entry point name that asks for no base namespace
ANY == <<"any">>

-----------------------------------------------------------------------------
(* Config._update and the modules it merges *)

\* Statement sequencing.  "x = value; rest" is written
\*     Only({rest : x \in {value}})
\* which computes value once, whatever the number of uses of x in rest.
Only(S) == CHOOSE r \in S : TRUE

\* A module's dictionary is the sequence of its bindings, in definition
\* order.  kind: "value" (a plain value), "callable" (value is what the call
\* returns), "namespace" (a Namespace instance, leaves are its flattened
\* bindings), "class" (the Namespace class), "marker" (pyconfig.deferred).
Binding(name, kind, value, leaves) ==
    [name |-> name, kind |-> kind, value |-> value, leaves |-> leaves]

Plain(name, value) == Binding(name, "value", value, <<>>)

Leaf(path, value) == [path |-> path, value |-> value]

\* from pyconfig import deferred
Marker == Binding(<<"deferred">>, "marker", None, <<>>)

\* pyconfig = Namespace(); pyconfig.etcd.prefix = value
PrefixNamespace(value) ==
    Binding(<<"pyconfig">>, "namespace", None,
            <<Leaf(<<"etcd", ".", "prefix">>, value)>>)

\* runpy.run_module(mod_name): the modules that exist
RunModule(mod_name) ==
    CASE mod_name = "plug_a" -> <<Plain(KEY_ab, Obj("a"))>>
      [] mod_name = "plug_b" ->
            <<Plain(KEY_Ab, Obj("b")),
              Plain(<<"_", "hidden">>, Obj("h")),
              PrefixNamespace(Str(<<"cfg">>))>>
      [] mod_name = "plug_d" -> <<Marker, Plain(KEY_ab, Obj("d"))>>
      [] mod_name = "plug_e" ->
            <<Plain(KEY_ab, Obj("e")), Marker,
              PrefixNamespace(Str(<<"dcfg">>))>>
      [] mod_name = "plug_f" ->
            <<Binding(<<"Namespace">>, "class", None, <<>>),
              Binding(KEY_ab, "callable", None, <<>>),
              Binding(<<"cd">>, "callable", Obj("f"), <<>>)>>
      [] mod_name = "local_a" -> <<Plain(KEY_ab, Obj("L"))>>
      [] mod_name = "local_b" ->
            <<Plain(KEY_Ab, Obj("M")), PrefixNamespace(Str(<<"base">>))>>
      [] OTHER -> <<>>

\* one set() made by the load, and the history of it
SetLoggedFirstWins(st, name, value, tag) ==
    [settings |-> IF Normalize(st.settings, name) \in DOMAIN st.settings
                  THEN st.settings
                  ELSE ConfigSet(st.settings, name, value),
     log |-> Append(st.log, [src |-> tag.src, idx |-> tag.idx,
                             key |-> Normalize(st.settings, name),
                             val |-> value])]

SetLogged(st, name, value, tag) ==
    [settings |-> ConfigSet(st.settings, name, value),
     log |-> Append(st.log, [src |-> tag.src, idx |-> tag.idx,
                             key |-> Normalize(st.settings, name),
                             val |-> value])]

RECURSIVE SetLeaves(_, _, _, _, _)
\* for name, value in value.iteritems(name): self.set(name, value)
SetLeaves(st, name, leaves, j, tag) ==
    IF j > Len(leaves) THEN st
    ELSE Only({SetLeaves(st1, name, leaves, j + 1, tag) :
                  st1 \in {SetLogged(st, name \o <<".">> \o leaves[j].path,
                                     leaves[j].value, tag)}})

\* the body of the loop of Config._update, for one binding
UpdateOneKeepsPrivate(st, b, base_name, tag) ==
    LET name == IF base_name # <<>> THEN base_name \o <<".">> \o b.name
                ELSE b.name
    IN
    IF b.kind = "class" THEN st
    ELSE IF b.kind = "namespace" THEN SetLeaves(st, name, b.leaves, 1, tag)
    ELSE IF b.kind \in {"callable", "marker"}
         THEN IF b.value # None THEN SetLogged(st, name, b.value, tag) ELSE st
    ELSE SetLogged(st, name, b.value, tag)

UpdateOneStoresNone(st, b, base_name, tag) ==
    LET name == IF base_name # <<>> THEN base_name \o <<".">> \o b.name
                ELSE b.name
    IN
    IF Head(b.name) = "_" THEN st
    ELSE IF b.kind = "class" THEN st
    ELSE IF b.kind = "namespace" THEN SetLeaves(st, name, b.leaves, 1, tag)
    ELSE SetLogged(st, name, b.value, tag)

UpdateOne(st, b, base_name, tag) ==
    LET name == IF base_name # <<>> THEN base_name \o <<".">> \o b.name
                ELSE b.name
    IN
    IF Head(b.name) = "_" THEN st
    ELSE IF b.kind = "class" THEN st
    ELSE IF b.kind = "namespace" THEN SetLeaves(st, name, b.leaves, 1, tag)
    ELSE IF b.kind \in {"callable", "marker"}
         THEN IF b.value # None THEN SetLogged(st, name, b.value, tag) ELSE st
    ELSE SetLogged(st, name, b.value, tag)

RECURSIVE UpdateInvokes(_, _)
\* the callables that _update calls (line 124), in the order of the calls
UpdateInvokes(conf_dict, j) ==
    IF j > Len(conf_dict) THEN <<>>
    ELSE IF /\ Head(conf_dict[j].name) # "_"
            /\ conf_dict[j].kind \in {"callable", "marker"}
    THEN <<conf_dict[j].name>> \o UpdateInvokes(conf_dict, j + 1)
    ELSE UpdateInvokes(conf_dict, j + 1)

RECURSIVE UpdateFrom(_, _, _, _, _)
UpdateFrom(st, conf_dict, j, base_name, tag) ==
    IF j > Len(conf_dict) THEN st
    ELSE Only({UpdateFrom(st1, conf_dict, j + 1, base_name, tag) :
                  st1 \in {UpdateOne(st, conf_dict[j], base_name, tag)}})

\* Config._update(conf_dict, base_name)
Update(st, conf_dict, base_name, tag) ==
    UpdateFrom(st, conf_dict, 1, base_name, tag)

-----------------------------------------------------------------------------
(* Config.load: the plugin loop and the deferred modules *)

\* mod_dict.get("deferred", None) is deferred
IsDeferredNever(mod_dict) == FALSE

IsDeferred(mod_dict) ==
    \E j \in DOMAIN mod_dict :
        mod_dict[j].name = <<"deferred">> /\ mod_dict[j].kind = "marker"

RECURSIVE PopDeferred(_)
\* mod_dict.pop("deferred")
PopDeferred(mod_dict) ==
    IF mod_dict = <<>> THEN <<>>
    ELSE IF Head(mod_dict).name = <<"deferred">> THEN Tail(mod_dict)
    ELSE <<Head(mod_dict)>> \o PopDeferred(Tail(mod_dict))

\* base_name = conf.name if conf.name != "any" else None
BaseName(conf) == IF conf.name # ANY THEN conf.name ELSE <<>>

RECURSIVE LoadDeferred(_, _, _)
\* for mod_name, base_name, mod_dict in defer: self._update(...)
LoadDeferred(st, defer, j) ==
    IF j > Len(defer) THEN st
    ELSE Only({LoadDeferred(st1, defer, j + 1) :
                  st1 \in {Update(st, defer[j].mod_dict, defer[j].base_name,
                                  [src |-> "deferred",
                                   idx |-> defer[j].idx])}})

RECURSIVE LoadPluginsFrom(_, _, _, _)
\* for conf in iter_entry_points("pyconfig"): ...; then the deferred modules.
\* The result says whether RuntimeError("config must be a module") was raised.
LoadPluginsFrom(st, entry_points, i, defer) ==
    IF i > Len(entry_points)
    THEN [st |-> LoadDeferred(st, defer, 1), raised |-> FALSE]
    ELSE IF entry_points[i].attrs THEN [st |-> st, raised |-> TRUE]
    ELSE IF IsDeferred(RunModule(entry_points[i].module_name))
    THEN Only({LoadPluginsFrom(st, entry_points, i + 1, defer1) :
                  defer1 \in {Append(defer,
                      [idx |-> i, base_name |-> BaseName(entry_points[i]),
                       mod_dict |->
                           PopDeferred(RunModule(entry_points[i].module_name))
                      ])}})
    ELSE Only({LoadPluginsFrom(st1, entry_points, i + 1, defer) :
                  st1 \in {Update(st, RunModule(entry_points[i].module_name),
                                  BaseName(entry_points[i]),
                                  [src |-> "plugin", idx |-> i])}})

LoadPlugins(st, entry_points) == LoadPluginsFrom(st, entry_points, 1, <<>>)

-----------------------------------------------------------------------------
(* etcd: the remote backend adapter *)

\* etcd._self before the first construction
NoAdapter ==
    [init |-> FALSE, module |-> FALSE, client |-> FALSE, watcher |-> 0,
     watching |-> None, case_sensitive |-> None, inherit_depth |-> None]

\* env(key, default), os.environ holding os_value (None: not set) for the key
EnvGet(st, os_value, key, default) ==
    IF os_value # None THEN [st |-> st, ret |-> os_value]
    ELSE Only({[st |-> [st EXCEPT !.settings = g.settings],
                ret |-> IF g.ret # None THEN g.ret ELSE default] :
                  g \in {ConfigGet(st.settings, key, None, TRUE)}})

\* etcd._set_prefix
EtcdSetPrefix(st, prefix) ==
    IF ~Truthy(prefix) THEN st
    ELSE SetLogged(st, PREFIX_KEY, Str(NormPrefix(prefix.s)),
                   [src |-> "adapter", idx |-> 0])

\* etcd._get_prefix: the settings after its get(), and the prefix
EtcdGetPrefix(st) ==
    Only({[st |-> [st EXCEPT !.settings = g.settings],
           ret |-> NormPrefix(IF Truthy(g.ret) THEN g.ret.s
                              ELSE DEFAULT_PREFIX)] :
             g \in {ConfigGet(st.settings, PREFIX_KEY, None, TRUE)}})

\* the settings that etcd.init reads through env(), in the order it reads them:
\* jetconfig.etcd, pyconfig.etcd.hosts, .protocol, .cacert, .cert, .key, .auth
InitEnvKeys ==
    <<<<"jetconfig", ".", "etcd">>,
      HOSTS_KEY,
      <<"pyconfig", ".", "etcd", ".", "protocol">>,
      <<"pyconfig", ".", "etcd", ".", "cacert">>,
      <<"pyconfig", ".", "etcd", ".", "cert">>,
      <<"pyconfig", ".", "etcd", ".", "key">>,
      <<"pyconfig", ".", "etcd", ".", "auth">>>>

RECURSIVE InitEnvReads(_, _, _)
\* the env() calls of etcd.init; of the environment only PYCONFIG_ETCD_HOSTS
\* is ever set.  The result's ret is the hosts.
InitEnvReads(r, e, j) ==
    IF j > Len(InitEnvKeys) THEN r
    ELSE Only({InitEnvReads([st |-> g.st,
                             ret |-> IF InitEnvKeys[j] = HOSTS_KEY
                                     THEN g.ret ELSE r.ret],
                            e, j + 1) :
                  g \in {EnvGet(r.st,
                                IF InitEnvKeys[j] = HOSTS_KEY THEN e.os_hosts
                                ELSE None,
                                InitEnvKeys[j], None)}})

\* A tuple, the items in order (a list is the same with t = "list")
Tuple(items) == [t |-> "tuple", items |-> items]

RECURSIVE Split(_, _)
\* s.split(sep), sep being one character: the list of the pieces
Split(s, sep) ==
    IF \A i \in DOMAIN s : s[i] # sep THEN <<s>>
    ELSE Only({<<SubSeq(s, 1, i - 1)>> \o Split(DropFirst(s, i), sep) :
                  i \in {CHOOSE i \in DOMAIN s :
                             s[i] = sep /\ \A j \in 1..(i - 1) : s[j] # sep}})

RECURSIVE StripSpace(_)
\* s.strip()
StripSpace(s) ==
    IF s # <<>> /\ Head(s) = " " THEN StripSpace(Tail(s))
    ELSE IF s # <<>> /\ s[Len(s)] = " "
    THEN StripSpace(SubSeq(s, 1, Len(s) - 1))
    ELSE s

\* int(s): the integer, or ValueError; the decimal numerals the model uses
\* are "2379", "4001" and "443"
ToIntKeepsString(s) == [ret |-> Str(StripSpace(s)), raised |-> FALSE]

ToInt(s) ==
    Only({IF w = <<"2379">> THEN [ret |-> PyInt(2379), raised |-> FALSE]
          ELSE IF w = <<"4001">> THEN [ret |-> PyInt(4001), raised |-> FALSE]
          ELSE IF w = <<"443">> THEN [ret |-> PyInt(443), raised |-> FALSE]
          ELSE [ret |-> None, raised |-> TRUE] :
             w \in {StripSpace(s)}})

\* lines 524-529 for one item of the comma-separated string:
\* host.strip().split(":"), then (host[0], int(host[1]))
ParseHost(item) ==
    Only({IF Len(host) < 2 THEN [ret |-> None, raised |-> TRUE]
          ELSE IF ToInt(host[2]).raised THEN [ret |-> None, raised |-> TRUE]
          ELSE [ret |-> Tuple(<<Str(host[1]), ToInt(host[2]).ret>>),
                raised |-> FALSE] :
             host \in {Split(StripSpace(item), ":")}})

\* etcd._parse_hosts: None when no hosts are given, else the tuple of the
\* hosts; raised when a list comprehension raises IndexError or ValueError
ParseHosts(hosts) ==
    IF hosts = None THEN [ret |-> None, raised |-> FALSE]
    ELSE IF hosts.t = "str"
    THEN Only({IF \E j \in DOMAIN parsed : parsed[j].raised
               THEN [ret |-> None, raised |-> TRUE]
               ELSE [ret |-> Tuple([j \in DOMAIN parsed |-> parsed[j].ret]),
                     raised |-> FALSE] :
                  parsed \in {[j \in DOMAIN items |-> ParseHost(items[j])] :
                                 items \in {Split(hosts.s, ",")}}})
    ELSE [ret |-> Tuple(hosts.items), raised |-> FALSE]

\* etcd.init
EtcdInit(st, e, ad) ==
    IF ~e.etcd_lib THEN [st |-> st, ad |-> ad]
    ELSE Only({[st |-> r.st,
                ad |-> [ad EXCEPT !.module = TRUE,
                                  !.client =
                                      (ParseHosts(r.ret).ret # None)]] :
                  r \in {InitEnvReads([st |-> st, ret |-> None], e, 1)}})

\* etcd.__init__, lines 346-348
CtorInit(st, e, ad) ==
    IF ad.init THEN [st |-> st, ad |-> ad]
    ELSE EtcdInit(st, e, [ad EXCEPT !.init = TRUE])

\* etcd.__init__ from line 343 on
CtorWatch(st, e, ad) ==
    Only({CtorInit(r.st, e, [ad EXCEPT !.watching = r.ret]) :
             r \in {EnvGet(st, e.os_watch, WATCH_KEY, PyFalse)}})

\* etcd.__init__ from line 338 on
CtorDepth(st, e, ad) ==
    Only({CtorWatch(r.st, e, [ad EXCEPT !.inherit_depth = r.ret]) :
             r \in {EnvGet(st, None, DEPTH_KEY, PyInt(2))}})

\* etcd.__init__ from line 333 on
CtorCase(st, e, ad) ==
    Only({CtorDepth([st EXCEPT !.settings = g.settings], e,
                    [ad EXCEPT !.case_sensitive = g.ret]) :
             g \in {ConfigGet(st.settings, CASE_KEY, PyFalse, TRUE)}})

\* etcd.__init__
EtcdCtor(st, e, ad) ==
    Only({CtorCase(st1, e, ad) :
             st1 \in {Only({EtcdSetPrefix(r.st, r.ret) :
                          r \in {EnvGet(st, e.os_prefix, PREFIX_KEY,
                                        None)}})}})

\* etcd.configured
ConfiguredAlways(ad) == TRUE

Configured(ad) == ad.module /\ ad.client

\* pytool.json.from_json(value), and the raw string when it raises
JsonDecode(value) ==
    CASE value = <<"true">> -> PyTrue
      [] value = <<"false">> -> PyFalse
      [] value = <<"null">> -> None
      [] value = <<"1">> -> PyInt(1)
      [] Len(value) >= 2 /\ Head(value) = "\"" /\ value[Len(value)] = "\"" ->
            Str(SubSeq(value, 2, Len(value) - 1))
      [] OTHER -> Str(value)

\* A dict built by the adapter keeps insertion order: a sequence of items.
OdGet(od, name, default) ==
    IF \E j \in DOMAIN od : od[j].name = name
    THEN od[CHOOSE j \in DOMAIN od : od[j].name = name].value
    ELSE default

OdPut(od, name, value) ==
    IF \E j \in DOMAIN od : od[j].name = name
    THEN [j \in DOMAIN od |->
            IF od[j].name = name THEN [name |-> name, value |-> value]
            ELSE od[j]]
    ELSE Append(od, [name |-> name, value |-> value])

RECURSIVE OdUpdate(_, _, _)
\* od.update(other)
OdUpdate(od, other, j) ==
    IF j > Len(other) THEN od
    ELSE Only({OdUpdate(od1, other, j + 1) :
                  od1 \in {OdPut(od, other[j].name, other[j].value)}})

\* lines 461-475: the name a child's key gives
ChildKey(item, prefix, case_sensitive) ==
    LET key == IF ~Truthy(case_sensitive) THEN Lower(item.key) ELSE item.key
    IN IF StartsWith(key, prefix) THEN DropFirst(key, Len(prefix)) ELSE key

RECURSIVE ChildrenToUpdate(_, _, _, _, _)
\* for item in result.children: ...; update[key] = value
ChildrenToUpdate(update, children, j, prefix, case_sensitive) ==
    IF j > Len(children) THEN update
    ELSE Only({ChildrenToUpdate(update1, children, j + 1, prefix,
                                case_sensitive) :
                  update1 \in {OdPut(update,
                                     ChildKey(children[j], prefix,
                                              case_sensitive),
                                     JsonDecode(children[j].value))}})

\* lines 481-483: the prefix to inherit from, if any
Inherited(s, update) ==
    DictGet(s, INHERIT_KEY, OdGet(update, INHERIT_KEY, None))

RECURSIVE EtcdFetch(_, _, _, _, _)
\* etcd.load(prefix, depth) of a configured adapter, from "Loading from etcd"
\* on: the fetch, the keys, the inheritance
EtcdFetch(s, ad, remote, prefix, depth) ==
    IF NormPrefix(prefix) \notin DOMAIN remote THEN <<>>
    ELSE Only({IF depth > 0 /\ Truthy(Inherited(s, update))
               THEN Only({OdUpdate(base, update, 1) :
                             base \in {EtcdFetch(s, ad, remote,
                                                 Inherited(s, update).s,
                                                 depth - 1)}})
               ELSE update :
                  update \in {ChildrenToUpdate(<<>>,
                                               remote[NormPrefix(prefix)], 1,
                                               NormPrefix(prefix),
                                               ad.case_sensitive)}})

RECURSIVE FetchedPrefixesBelowZero(_, _, _, _, _)
\* the same with the pointer followed once more, when depth has reached 0
FetchedPrefixesBelowZero(s, ad, remote, prefix, depth) ==
    IF NormPrefix(prefix) \notin DOMAIN remote THEN <<NormPrefix(prefix)>>
    ELSE Only({IF depth >= 0 /\ Truthy(Inherited(s, update))
               THEN <<NormPrefix(prefix)>> \o
                    FetchedPrefixesBelowZero(s, ad, remote,
                                             Inherited(s, update).s,
                                             depth - 1)
               ELSE <<NormPrefix(prefix)>> :
                  update \in {ChildrenToUpdate(<<>>,
                                               remote[NormPrefix(prefix)], 1,
                                               NormPrefix(prefix),
                                               ad.case_sensitive)}})

RECURSIVE FetchedPrefixes(_, _, _, _, _)
\* the prefixes that etcd.load(prefix, depth) passes to client.get, in order
FetchedPrefixes(s, ad, remote, prefix, depth) ==
    IF NormPrefix(prefix) \notin DOMAIN remote THEN <<NormPrefix(prefix)>>
    ELSE Only({IF depth > 0 /\ Truthy(Inherited(s, update))
               THEN <<NormPrefix(prefix)>> \o
                    FetchedPrefixes(s, ad, remote, Inherited(s, update).s,
                                    depth - 1)
               ELSE <<NormPrefix(prefix)>> :
                  update \in {ChildrenToUpdate(<<>>,
                                               remote[NormPrefix(prefix)], 1,
                                               NormPrefix(prefix),
                                               ad.case_sensitive)}})

\* the mapping etcd.load returns, as the module dictionary _update merges
AsModuleDict(od) == [j \in DOMAIN od |-> Plain(od[j].name, od[j].value)]

\* Thread.is_alive() of watcher thread t
IsAlive(th, t) == th[t] \in {"started", "watching"}

\* Watcher(): the thread object created next
NewThread(th) ==
    CHOOSE t \in DOMAIN th :
        th[t] = "new" /\ \A u \in DOMAIN th : th[u] = "new" => t <= u

\* etcd.start_watching: the adapter and the threads after it
StartWatchingAlways(ad, th) ==
    [ad |-> [ad EXCEPT !.watcher = NewThread(th)],
     th |-> [th EXCEPT ![NewThread(th)] = "started"]]

StartWatching(ad, th) ==
    IF ad.watcher # 0 /\ IsAlive(th, ad.watcher) THEN [ad |-> ad, th |-> th]
    ELSE [ad |-> [ad EXCEPT !.watcher = NewThread(th)],
          th |-> [th EXCEPT ![NewThread(th)] = "started"]]

\* a dict that etcd.load returns
DictNoneWhenEmpty(od) == IF od = <<>> THEN None ELSE [t |-> "dict", od |-> od]

Dict(od) == [t |-> "dict", od |-> od]

\* etcd.load(prefix, depth): the store, the adapter and the threads after
\* it, what it returns (None or a dict) and the prefixes it fetched
EtcdLoadResult(st, e, ad, th, prefix, depth) ==
    Only({IF ~Configured(ad)
          THEN [st |-> p.st, ad |-> ad, th |-> th, ret |-> None,
                fetched |-> <<>>]
          ELSE [st |-> p.st, ad |-> w.ad, th |-> w.th,
                ret |-> Dict(EtcdFetch(p.st.settings, w.ad, e.remote, p.ret,
                                       d.n)),
                fetched |-> FetchedPrefixes(p.st.settings, w.ad, e.remote,
                                            p.ret, d.n)] :
             p \in {IF Truthy(prefix) THEN [st |-> st, ret |-> prefix.s]
                    ELSE EtcdGetPrefix(st)},
             d \in {IF depth = None THEN ad.inherit_depth ELSE depth},
             w \in {IF Configured(ad) /\ Truthy(ad.watching)
                    THEN StartWatching(ad, th)
                    ELSE [ad |-> ad, th |-> th]}})

\* Config.call_reload_hooks: the hooks it calls, in the order it calls them
RECURSIVE CallHooksFrom(_, _, _)
CallHooksFrom(calls, hooks, j) ==
    IF j > Len(hooks) THEN calls
    ELSE CallHooksFrom(Append(calls, hooks[j]), hooks, j + 1)

CallReloadHooksReversed(hooks) ==
    [j \in DOMAIN hooks |-> hooks[Len(hooks) + 1 - j]]

CallReloadHooks(hooks) == CallHooksFrom(<<>>, hooks, 1)

-----------------------------------------------------------------------------
(* What the process runs in *)

\* an entry point of the group "pyconfig": name = module_name[:attrs]
EntryPoint(name, module_name, attrs) ==
    [name |-> name, module_name |-> module_name, attrs |-> attrs]

\* the entry points that may be installed
EntryPoints ==
    {EntryPoint(ANY, "plug_a", FALSE), EntryPoint(ANY, "plug_b", FALSE),
     EntryPoint(ANY, "plug_d", FALSE), EntryPoint(ANY, "plug_e", FALSE),
     EntryPoint(ANY, "plug_f", FALSE), EntryPoint(<<"ns">>, "plug_a", FALSE),
     EntryPoint(ANY, "plug_a", TRUE)}

MaxPlugins == 2

SeqsUpTo(S, n) == UNION {[1..m -> S] : m \in 0..n}

\* a node of the remote store
Item(key, value) == [key |-> key, value |-> value]

\* Remote stores: directory -> its children.  A directory that is missing
\* makes client.get raise EtcdKeyNotFound.
NoRemote == [p \in {} |-> <<>>]

RemoteA ==
    DictPut(DictPut(DictPut(NoRemote,
        <<"/", "config", "/">>,
            <<Item(<<"/", "config", "/", "ab">>, <<"r">>)>>),
        <<"/", "dcfg", "/">>,
            <<Item(<<"/", "dcfg", "/", "ab">>, <<"true">>)>>),
        <<"/", "env", "/">>,
            <<Item(<<"/", "env", "/", "Ab">>, <<"1">>)>>)

RemoteB ==
    DictPut(DictPut(NoRemote,
        <<"/", "config", "/">>,
            <<Item(<<"/", "config", "/", "config", ".", "inherit">>,
                   <<"\"", "/", "base", "/", "\"">>),
              Item(<<"/", "config", "/", "cd">>, <<"x">>)>>),
        <<"/", "base", "/">>,
            <<Item(<<"/", "base", "/", "ab">>, <<"\"", "rb", "\"">>),
              Item(<<"/", "base", "/", "cd">>, <<"null">>)>>)

\* "127.0.0.1:2379"
HOSTS == Str(<<"127.0.0.1", ":", "2379">>)

\* the backend: library installed or not, PYCONFIG_ETCD_HOSTS, remote store
Backend(etcd_lib, os_hosts, remote) ==
    [etcd_lib |-> etcd_lib, os_hosts |-> os_hosts, remote |-> remote]

Environment(entry_points, localconfig, backend, os_prefix, os_watch) ==
    [entry_points |-> entry_points, localconfig |-> localconfig,
     etcd_lib |-> backend.etcd_lib, os_hosts |-> backend.os_hosts,
     remote |-> backend.remote, os_prefix |-> os_prefix,
     os_watch |-> os_watch]

\* no plugin, no localconfig, no backend library, nothing in os.environ
BareEnv == Environment(<<>>, "", Backend(FALSE, None, NoRemote), None, None)

\* the environments the sources are merged in: no watch mode
SourceEnvs ==
    {Environment(ep, lc, b, op, None) :
        ep \in SeqsUpTo(EntryPoints, MaxPlugins),
        lc \in {"", "local_a", "local_b"},
        b \in {Backend(FALSE, None, NoRemote), Backend(TRUE, None, RemoteA),
               Backend(TRUE, HOSTS, RemoteA), Backend(TRUE, HOSTS, RemoteB)},
        op \in {None, Str(<<"/", "env", "/">>)}}

\* the environments of the hooks and of the watcher, and those in which an
\* entry point with attributes is installed next to other sources
LifeEnvs ==
    {Environment(ep, "", b, None, ow) :
        ep \in {<<>>, <<EntryPoint(ANY, "plug_a", FALSE)>>,
                <<EntryPoint(ANY, "plug_a", TRUE)>>},
        b \in {Backend(FALSE, None, NoRemote), Backend(TRUE, HOSTS, RemoteA)},
        ow \in {None, Str(<<"1">>)}}
    \cup
    {Environment(ep, "local_a", Backend(TRUE, HOSTS, RemoteA), None, None) :
        ep \in {<<EntryPoint(ANY, "plug_d", FALSE),
                  EntryPoint(ANY, "plug_a", TRUE)>>,
                <<EntryPoint(ANY, "plug_b", FALSE),
                  EntryPoint(ANY, "plug_a", TRUE)>>,
                <<EntryPoint(ANY, "plug_a", TRUE),
                  EntryPoint(ANY, "plug_a", FALSE)>>}}

-----------------------------------------------------------------------------
(* Config.load, stage by stage *)

\* lines 146-168: the plugin loop and the deferred modules
PluginsStageSkipsAttrs(st, e) ==
    LoadPlugins(st, SelectSeq(e.entry_points, LAMBDA conf : ~conf.attrs))

PluginsStage(st, e) == LoadPlugins(st, e.entry_points)

\* etcd.load(), called with no arguments on a configured adapter
EtcdLoad(st, e, ad, th) ==
    Only({Only({[st |-> Update(p.st, mod_dict, <<>>,
                               [src |-> "remote", idx |-> 0]),
                 ad |-> w.ad, th |-> w.th] :
                   mod_dict \in {AsModuleDict(
                       EtcdFetch(p.st.settings, w.ad, e.remote, p.ret,
                                 w.ad.inherit_depth.n))}}) :
             p \in {EtcdGetPrefix(st)},
             w \in {IF Truthy(ad.watching) THEN StartWatching(ad, th)
                    ELSE [ad |-> ad, th |-> th]}})

\* lines 170-174: etcd().configured, etcd().load() and the merge
EtcdStage(st, e, ad, th) ==
    Only({IF ~Configured(c1.ad) THEN [st |-> c1.st, ad |-> c1.ad, th |-> th]
          ELSE Only({EtcdLoad(c2.st, e, c2.ad, th) :
                        c2 \in {EtcdCtor(c1.st, e, c1.ad)}}) :
             c1 \in {EtcdCtor(st, e, ad)}})

\* lines 176-199: localconfig, when it can be imported
LocalStage(st, e) ==
    IF e.localconfig = "" THEN st
    ELSE Update(st, RunModule(e.localconfig), <<>>,
                [src |-> "local", idx |-> 0])

-----------------------------------------------------------------------------
(* The foreground thread: construction, reload, hooks *)

MaxCtors == 3

MaxHooks == 2

MaxThreads == 3

HookIds == {"h1", "h2"}

\* no accessor call made yet
NoCall ==
    [op |-> "none", key |-> <<>>, nkey |-> <<>>, val |-> None,
     allow |-> TRUE, ret |-> None, raised |-> FALSE, cs |-> FALSE,
     afterFail |-> FALSE]

NoRace ==
    [g |-> "off", s |-> "off", name |-> <<>>, value |-> None,
     default |-> None, allow |-> TRUE, gname |-> <<>>, sname |-> <<>>,
     ret |-> None]

NoThreads == [t \in 1..MaxThreads |-> "new"]

\* no call made on the adapter yet
NoAdapterCall ==
    [op |-> "none", arg |-> None, depth |-> None, done |-> TRUE,
     ret |-> None, raised |-> FALSE, fetched |-> <<>>, invoked |-> <<>>]

\* an event of the change feed: event.action, event.key, event.value
Event(action, key, value) == [action |-> action, key |-> key, value |-> value]

\* no subscription made yet, no event taken, none waiting to be taken
NoFeed ==
    [prefix |-> <<>>, event |-> Event("none", <<>>, <<>>), queue |-> <<>>]

\* a Watcher can still be created
ThreadsLeft == \E t \in DOMAIN threads : threads[t] = "new"

\* Config.load() of the first Config(), from an empty store
FirstLoad(e) ==
    Only({[st |-> LocalStage(r.st, e), ad |-> r.ad, th |-> r.th] :
             r \in {EtcdStage(PluginsStage([settings |-> EmptyDict,
                                            log |-> <<>>], e).st,
                              e, NoAdapter, NoThreads)}})

\* Config.__init__, lines 78-79: _init while the load it starts is running
InitAfterLoad(init) == init

InitBeforeLoad(init) == TRUE

\* the process before anything of pyconfig is constructed
LoadInit(envs) ==
    /\ settings = EmptyDict
    /\ last = NoCall
    /\ sticky = EmptyDict
    /\ cfg_init = FALSE
    /\ reload_hooks = <<>>
    /\ adapter = NoAdapter
    /\ threads = NoThreads
    /\ env \in envs
    /\ pc = "idle"
    /\ call = [op |-> "none", clear |-> FALSE]
    /\ outcome = "none"
    /\ wlog = <<>>
    /\ hook_calls = <<>>
    /\ ctor_calls = 0
    /\ ctor_loads = 0
    /\ race = NoRace
    /\ acall = NoAdapterCall
    /\ feed = NoFeed

\* Config(): the first one starts the load
Construct ==
    /\ pc = "idle"
    /\ ctor_calls < MaxCtors
    /\ ctor_calls' = ctor_calls + 1
    /\ IF ~cfg_init
       THEN /\ cfg_init' = InitBeforeLoad(cfg_init)
            /\ ctor_loads' = ctor_loads + 1
            /\ pc' = "plugins"
            /\ call' = [op |-> "Config", clear |-> FALSE]
            /\ outcome' = "running"
            /\ wlog' = <<>>
            /\ hook_calls' = <<>>
       ELSE UNCHANGED <<cfg_init, ctor_loads, pc, call, outcome, wlog,
                        hook_calls>>
    /\ UNCHANGED <<settings, last, sticky, reload_hooks, adapter, threads,
                   env, race, acall, feed>>

\* pyconfig.reload(clear), up to the plugin loop of Config.load
Reload(clear) ==
    /\ pc = "idle"
    /\ cfg_init
    /\ ThreadsLeft
    /\ settings' = IF clear THEN ConfigClear(settings) ELSE settings
    /\ pc' = "plugins"
    /\ call' = [op |-> "reload", clear |-> clear]
    /\ outcome' = "running"
    /\ wlog' = <<>>
    /\ hook_calls' = <<>>
    /\ UNCHANGED <<last, sticky, cfg_init, reload_hooks, adapter, threads,
                   env, ctor_calls, ctor_loads, race, acall, feed>>

\* Config.load, lines 143-168
LoadPluginsStep ==
    /\ pc = "plugins"
    /\ LET r == PluginsStage([settings |-> settings, log |-> wlog], env) IN
       /\ settings' = r.st.settings
       /\ wlog' = r.st.log
       /\ pc' = IF r.raised THEN "idle" ELSE "etcd"
       /\ outcome' = IF r.raised THEN "raised" ELSE outcome
    /\ UNCHANGED <<last, sticky, cfg_init, reload_hooks, adapter, threads,
                   env, call, hook_calls, ctor_calls, ctor_loads,
                   race, acall, feed>>

\* Config.load, lines 170-174.  etcd.__init__ calls get(), which constructs
\* Config() again while the load is running: were _init still unset there,
\* that construction would start the load over.
LoadEtcd ==
    /\ pc = "etcd"
    /\ ctor_calls' = IF ctor_calls < MaxCtors THEN ctor_calls + 1
                     ELSE ctor_calls
    /\ IF ~cfg_init
       THEN /\ ctor_loads' = ctor_loads + 1
            /\ pc' = IF ctor_loads < MaxCtors THEN "plugins" ELSE "idle"
            /\ outcome' = IF ctor_loads < MaxCtors THEN outcome ELSE "raised"
            /\ UNCHANGED <<settings, wlog, adapter, threads>>
       ELSE LET r == EtcdStage([settings |-> settings, log |-> wlog], env,
                               adapter, threads)
            IN /\ settings' = r.st.settings
               /\ wlog' = r.st.log
               /\ adapter' = r.ad
               /\ threads' = r.th
               /\ pc' = "local"
               /\ UNCHANGED <<ctor_loads, outcome>>
    /\ UNCHANGED <<last, sticky, cfg_init, reload_hooks, env, call,
                   hook_calls, race, acall, feed>>

\* Config.load, lines 176-199
LoadLocal ==
    /\ pc = "local"
    /\ LET st == LocalStage([settings |-> settings, log |-> wlog], env) IN
       /\ settings' = st.settings
       /\ wlog' = st.log
    /\ pc' = "hooks"
    /\ UNCHANGED <<last, sticky, cfg_init, reload_hooks, adapter, threads,
                   env, call, outcome, hook_calls, ctor_calls, ctor_loads,
                   race, acall, feed>>

\* Config.load, line 201, and the return
LoadHooks ==
    /\ pc = "hooks"
    /\ hook_calls' = CallReloadHooks(reload_hooks)
    /\ pc' = "idle"
    /\ outcome' = "ok"
    /\ UNCHANGED <<settings, last, sticky, cfg_init, reload_hooks, adapter,
                   threads, env, call, wlog, ctor_calls, ctor_loads,
                   race, acall, feed>>

\* pyconfig.reload_hook(func) / Config.add_reload_hook
AddReloadHook(hook) ==
    /\ pc = "idle"
    /\ cfg_init
    /\ Len(reload_hooks) < MaxHooks
    /\ reload_hooks' = Append(reload_hooks, hook)
    /\ UNCHANGED <<settings, last, sticky, cfg_init, adapter, threads, env,
                   pc, call, outcome, wlog, hook_calls, ctor_calls,
                   ctor_loads, race, acall, feed>>

\* pyconfig.clear(), between the loads
ClearCall ==
    /\ pc = "idle"
    /\ cfg_init
    /\ settings' = ConfigClear(settings)
    /\ last' = [NoCall EXCEPT !.op = "clear", !.cs = CaseSensitive(settings)]
    /\ UNCHANGED <<sticky, cfg_init, reload_hooks, adapter, threads, env, pc,
                   call, outcome, wlog, hook_calls, ctor_calls, ctor_loads,
                   race, acall, feed>>

-----------------------------------------------------------------------------
(* The watcher *)

RECURSIVE ReplaceFirst(_, _)
\* s.replace(p, "", 1)
ReplaceFirst(s, p) ==
    IF Len(s) < Len(p) THEN s
    ELSE IF StartsWith(s, p) THEN DropFirst(s, Len(p))
    ELSE <<Head(s)>> \o ReplaceFirst(Tail(s), p)

\* client.eternal_watch(prefix, recursive=True): the events the change feed
\* may deliver are changes of the keys under the prefix it was opened with
SetEvents(prefix) == {Event("set", prefix \o KEY_ab, <<"w">>)}

WatchEvents(prefix) ==
    SetEvents(prefix) \cup {Event("set", prefix \o KEY_Ab, <<"true">>),
                            Event("delete", prefix \o KEY_ab, <<>>)}

\* etcd().start_watching(), called by the application
StartWatchingCall ==
    /\ pc = "idle"
    /\ cfg_init
    /\ ThreadsLeft
    /\ LET c == EtcdCtor([settings |-> settings, log |-> <<>>], env, adapter)
           w == StartWatching(c.ad, threads)
       IN /\ settings' = c.st.settings
          /\ adapter' = w.ad
          /\ threads' = w.th
    /\ UNCHANGED <<last, sticky, cfg_init, reload_hooks, env, pc, call,
                   outcome, wlog, hook_calls, ctor_calls, ctor_loads,
                   race, acall, feed>>

\* Watcher.run, lines 602-605, up to the first wait for an event
WatcherRun(t) ==
    /\ threads[t] = "started"
    /\ LET c1 == EtcdCtor([settings |-> settings, log |-> <<>>], env, adapter)
           c2 == EtcdCtor(c1.st, env, c1.ad)
           p == EtcdGetPrefix(c2.st)
       IN IF ~Configured(c1.ad)
          THEN /\ settings' = c1.st.settings
               /\ adapter' = c1.ad
               /\ threads' = [threads EXCEPT ![t] = "dead"]
          ELSE IF ~Truthy(c2.ad.watching)
          THEN /\ settings' = c2.st.settings
               /\ adapter' = c2.ad
               /\ threads' = [threads EXCEPT ![t] = "dead"]
          ELSE /\ settings' = p.st.settings
               /\ adapter' = c2.ad
               /\ threads' = [threads EXCEPT ![t] = "watching"]
    /\ feed' = LET c1 == EtcdCtor([settings |-> settings, log |-> <<>>], env,
                                  adapter)
                   c2 == EtcdCtor(c1.st, env, c1.ad)
               IN IF Configured(c1.ad) /\ Truthy(c2.ad.watching)
                  THEN [feed EXCEPT !.prefix = EtcdGetPrefix(c2.st).ret]
                  ELSE feed
    /\ UNCHANGED <<last, sticky, cfg_init, reload_hooks, env, pc, call,
                   outcome, wlog, hook_calls, ctor_calls, ctor_loads,
                   race, acall>>

\* Watcher.run, lines 605-621, for one event
WatcherEvent(t, event) ==
    /\ threads[t] = "watching"
    /\ feed' = [feed EXCEPT
                   !.event = event,
                   !.queue = IF feed.queue # <<>> /\ Head(feed.queue) = event
                             THEN Tail(feed.queue)
                             ELSE feed.queue]
    /\ IF event.action # "set" THEN UNCHANGED <<settings, adapter>>
       ELSE \E c \in {EtcdCtor([settings |-> settings, log |-> <<>>], env,
                                adapter)} :
            \E p \in {EtcdGetPrefix(c.st)} :
            \E key \in {ReplaceFirst(event.key, p.ret)} :
               /\ settings' = ConfigSet(p.st.settings, key,
                                        JsonDecode(event.value))
               /\ adapter' = c.ad
    /\ UNCHANGED <<last, sticky, cfg_init, reload_hooks, threads, env, pc,
                   call, outcome, wlog, hook_calls, ctor_calls, ctor_loads,
                   race, acall>>

\* the change feed ends or raises: the thread is over
WatcherExit(t) ==
    /\ IsAlive(threads, t)
    /\ threads' = [threads EXCEPT ![t] = "dead"]
    /\ UNCHANGED <<settings, last, sticky, cfg_init, reload_hooks, adapter,
                   env, pc, call, outcome, wlog, hook_calls, ctor_calls,
                   ctor_loads, race, acall, feed>>

-----------------------------------------------------------------------------
(* The load in every environment of the sources (specification SpecLoad) *)

InitLoad == LoadInit(SourceEnvs)

NextLoad ==
    \/ Construct
    \/ \E clear \in BOOLEAN : Reload(clear)
    \/ LoadPluginsStep
    \/ LoadEtcd
    \/ LoadLocal
    \/ LoadHooks

SpecLoad == InitLoad /\ [][NextLoad]_vars

-----------------------------------------------------------------------------
(* Construction, hooks and the watcher (specification SpecLife) *)

InitLife == LoadInit(LifeEnvs)

NextLife ==
    \/ Construct
    \/ \E clear \in BOOLEAN : Reload(clear)
    \/ LoadPluginsStep
    \/ LoadEtcd
    \/ LoadLocal
    \/ LoadHooks
    \/ \E hook \in HookIds : AddReloadHook(hook)
    \/ StartWatchingCall
    \/ \E t \in 1..MaxThreads : WatcherRun(t)
    \/ \E t \in 1..MaxThreads, event \in SetEvents(feed.prefix) :
           WatcherEvent(t, event)
    \/ \E t \in 1..MaxThreads : WatcherExit(t)

SpecLife == InitLife /\ [][NextLife]_vars

-----------------------------------------------------------------------------
(* One get() of the foreground thread against one set() of the watcher      *)
(* thread, statement by statement (specification SpecRace)                  *)

\* a process whose first load found the backend and started the watcher
WatchEnv ==
    Environment(<<>>, "", Backend(TRUE, HOSTS, NoRemote), None,
                Str(<<"1">>))

\* the calls are get(name, default, allow_default) and set(name, value)
InitRace ==
    /\ settings \in {FirstLoad(WatchEnv).st.settings,
                     DictPut(FirstLoad(WatchEnv).st.settings, CASE_KEY,
                             PyTrue)}
    /\ last = NoCall
    /\ sticky = EmptyDict
    /\ cfg_init = TRUE
    /\ reload_hooks = <<>>
    /\ adapter = FirstLoad(WatchEnv).ad
    /\ threads = [FirstLoad(WatchEnv).th EXCEPT ![1] = "watching"]
    /\ env = WatchEnv
    /\ pc = "idle"
    /\ call = [op |-> "Config", clear |-> FALSE]
    /\ outcome = "ok"
    /\ wlog = <<>>
    /\ hook_calls = <<>>
    /\ ctor_calls = 1
    /\ ctor_loads = 1
    /\ race \in {[NoRace EXCEPT !.g = "start", !.s = "start", !.name = n,
                                !.value = v, !.default = d, !.allow = a] :
                    n \in {KEY_Ab, KEY_ab}, v \in {PyTrue, Obj("v1")},
                    d \in {None, Obj("d")}, a \in BOOLEAN}
    /\ acall = NoAdapterCall
    /\ feed = [NoFeed EXCEPT !.prefix = DEFAULT_PREFIX]

\* Config.get, lines 221-222
GetNormalize ==
    /\ race.g = "start"
    /\ race' = [race EXCEPT !.gname = Normalize(settings, race.name),
                            !.g = "check"]
    /\ UNCHANGED <<storeVars, loadVars>>

\* Config.get, lines 223-225
GetCheck ==
    /\ race.g = "check"
    /\ race' = [race EXCEPT !.g = IF race.gname \in DOMAIN settings
                                  THEN "return"
                                  ELSE IF ~race.allow THEN "raised"
                                  ELSE "store"]
    /\ UNCHANGED <<storeVars, loadVars>>

\* Config.get, line 226
GetStore ==
    /\ race.g = "store"
    /\ settings' = DictPut(settings, race.gname, race.default)
    /\ race' = [race EXCEPT !.g = "return"]
    /\ UNCHANGED <<last, sticky, loadVars>>

\* Config.get, line 227
GetReturn ==
    /\ race.g = "return"
    /\ race' = [race EXCEPT !.ret = settings[race.gname], !.g = "done"]
    /\ UNCHANGED <<storeVars, loadVars>>

\* Config.set, lines 92-93, in the watcher thread (Watcher.run, line 621)
SetNormalize ==
    /\ race.s = "start"
    /\ threads[adapter.watcher] = "watching"
    /\ race' = [race EXCEPT !.sname = Normalize(settings, race.name),
                            !.s = "write"]
    /\ UNCHANGED <<storeVars, loadVars>>

\* Config.set, lines 97-98: mut_lock is taken, the write made, the lock
\* released (set() is the only holder of the lock there is)
SetWrite ==
    /\ race.s = "write"
    /\ settings' = DictPut(settings, race.sname, race.value)
    /\ race' = [race EXCEPT !.s = "done"]
    /\ UNCHANGED <<last, sticky, loadVars>>

NextRace ==
    \/ GetNormalize
    \/ GetCheck
    \/ GetStore
    \/ GetReturn
    \/ SetNormalize
    \/ SetWrite

SpecRace == InitRace /\ [][NextRace]_vars

-----------------------------------------------------------------------------
(* The accessor calls of a single thread, one action per call             *)
(* (specification Spec)                                                  *)

\* key arguments and values the calls are made with
KeyArgs == {KEY_Ab, KEY_ab, CASE_KEY, CASE_KEY_MIXED}

SetValues == {None, PyTrue, Obj("v1")}

\* The store once the first Config() has loaded with no plugin, no backend
\* library and no localconfig: only the defaults that etcd.__init__ read.
AfterConstruction == FirstLoad(BareEnv).st.settings

Init ==
    /\ settings = AfterConstruction
    /\ last = NoCall
    /\ sticky = EmptyDict
    /\ cfg_init = TRUE
    /\ reload_hooks = <<>>
    /\ adapter = FirstLoad(BareEnv).ad
    /\ threads = FirstLoad(BareEnv).th
    /\ env = BareEnv
    /\ pc = "idle"
    /\ call = [op |-> "Config", clear |-> FALSE]
    /\ outcome = "ok"
    /\ wlog = <<>>
    /\ hook_calls = <<>>
    /\ ctor_calls = 1
    /\ ctor_loads = 1
    /\ race = NoRace
    /\ acall = NoAdapterCall
    /\ feed = NoFeed

\* pyconfig.set(name, value)
Set(name, value) ==
    /\ settings' = ConfigSet(settings, name, value)
    /\ last' = [op |-> "set", key |-> name, nkey |-> Normalize(settings, name),
                val |-> value, allow |-> TRUE, ret |-> None,
                raised |-> FALSE, cs |-> CaseSensitive(settings),
                afterFail |-> (last.op = "get" /\ last.raised /\ last.key = name)]
    /\ sticky' = DictDel(sticky, Normalize(settings, name))
    /\ UNCHANGED <<loadVars, race>>

\* pyconfig.get(name, default, allow_default)
Get(name, default, allow_default) ==
    LET r == ConfigGet(settings, name, default, allow_default)
        n == Normalize(settings, name)
    IN
    /\ settings' = r.settings
    /\ last' = [op |-> "get", key |-> name, nkey |-> n, val |-> None,
                allow |-> allow_default, ret |-> r.ret, raised |-> r.raised,
                cs |-> CaseSensitive(settings), afterFail |-> FALSE]
    /\ sticky' = IF n \notin DOMAIN settings /\ allow_default
                 THEN DictPut(sticky, n, default)
                 ELSE sticky
    /\ UNCHANGED <<loadVars, race>>

\* Setting(name, default, allow_default): the descriptor's attributes
Setting(name, default, allow_default) ==
    [name |-> name, default |-> default, allow_default |-> allow_default]

\* Setting.__get__(instance, owner); instance is None on the owning class
SettingGetAllowsDefault(s, desc, instance) ==
    ConfigGet(s, desc.name, desc.default, TRUE)

SettingGet(s, desc, instance) ==
    ConfigGet(s, desc.name, desc.default, desc.allow_default)

\* an access of the descriptor, on the class or on an instance of it
Access(desc, instance) ==
    LET r == SettingGet(settings, desc, instance)
        n == Normalize(settings, desc.name)
    IN
    /\ settings' = r.settings
    /\ last' = [op |-> "access", key |-> desc.name, nkey |-> n,
                val |-> desc.default, allow |-> desc.allow_default,
                ret |-> r.ret, raised |-> r.raised,
                cs |-> CaseSensitive(settings), afterFail |-> FALSE]
    /\ sticky' = IF n \notin DOMAIN settings /\ ~r.raised
                 THEN DictPut(sticky, n, desc.default)
                 ELSE sticky
    /\ UNCHANGED <<loadVars, race>>

\* pyconfig.clear()
Clear ==
    /\ settings' = ConfigClear(settings)
    /\ last' = [NoCall EXCEPT !.op = "clear", !.cs = CaseSensitive(settings)]
    /\ sticky' = EmptyDict
    /\ UNCHANGED <<loadVars, race>>

Next ==
    \/ \E name \in KeyArgs, value \in SetValues : Set(name, value)
    \/ \E name \in KeyArgs, default \in SetValues, allow \in BOOLEAN :
           Get(name, default, allow)
    \/ Clear
    \/ \E desc \in {Setting(KEY_Ab, None, TRUE),
                     Setting(KEY_ab, Obj("v1"), FALSE),
                     Setting(CASE_KEY, PyFalse, TRUE)},
          instance \in {None, Obj("self")} :
           Access(desc, instance)

Spec == Init /\ [][Next]_vars

-----------------------------------------------------------------------------
(* The application's calls on the adapter between the loads                 *)
(* (specification SpecEtcd)                                                 *)

\* A remote store with inheritance: "/cfg/" and "/Cfg/" inherit from
\* "/base/", "/env/" inherits from "/cfg/".  Keys are case-sensitive there.
RemoteC ==
    DictPut(DictPut(DictPut(DictPut(DictPut(NoRemote,
        <<"/", "config", "/">>,
            <<Item(<<"/", "config", "/", "ab">>, <<"r">>)>>),
        <<"/", "base", "/">>,
            <<Item(<<"/", "base", "/", "ab">>, <<"\"", "rb", "\"">>),
              Item(<<"/", "base", "/", "cd">>, <<"null">>)>>),
        <<"/", "cfg", "/">>,
            <<Item(<<"/", "cfg", "/", "config", ".", "inherit">>,
                   <<"/", "base", "/">>),
              Item(<<"/", "cfg", "/", "cd">>, <<"x">>)>>),
        <<"/", "Cfg", "/">>,
            <<Item(<<"/", "Cfg", "/", "config", ".", "inherit">>,
                   <<"\"", "/", "base", "/", "\"">>),
              Item(<<"/", "Cfg", "/", "ef">>, <<"1">>)>>),
        <<"/", "env", "/">>,
            <<Item(<<"/", "env", "/", "config", ".", "inherit">>,
                   <<"\"", "cfg", "\"">>),
              Item(<<"/", "env", "/", "Ab">>, <<"true">>)>>)

\* the prefixes the application sets: "cfg", "/Cfg/", "/base", "nowhere"
PrefixArgs ==
    {<<"cfg">>, <<"/", "Cfg", "/">>, <<"/", "base">>, <<"nowhere">>}

\* the process after the first Config() and at most one reload_hook(), in
\* each environment the adapter is called in
InitEtcd ==
    /\ env \in {Environment(<<>>, lc, b, op, ow) :
                   lc \in {"", "local_a"},
                   b \in {Backend(FALSE, None, NoRemote),
                          Backend(TRUE, None, RemoteC),
                          Backend(TRUE, HOSTS, RemoteC)},
                   op \in {None, Str(<<"/", "env", "/">>)},
                   ow \in {None, Str(<<"1">>)}}
    /\ settings = FirstLoad(env).st.settings
    /\ last = NoCall
    /\ sticky = EmptyDict
    /\ cfg_init = TRUE
    /\ reload_hooks \in {<<>>, <<"h1">>}
    /\ adapter = FirstLoad(env).ad
    /\ threads = FirstLoad(env).th
    /\ pc = "idle"
    /\ call = [op |-> "Config", clear |-> FALSE]
    /\ outcome = "ok"
    /\ wlog = FirstLoad(env).st.log
    /\ hook_calls = <<>>
    /\ ctor_calls = 1
    /\ ctor_loads = 1
    /\ race = NoRace
    /\ acall = NoAdapterCall
    /\ feed = NoFeed

\* pyconfig.set("pyconfig.etcd.prefix", p)
SetPrefixCall(p) ==
    /\ pc = "idle"
    /\ settings' = ConfigSet(settings, PREFIX_KEY, Str(p))
    /\ acall' = [NoAdapterCall EXCEPT !.op = "set_prefix", !.arg = Str(p)]
    /\ UNCHANGED <<last, sticky, cfg_init, reload_hooks, adapter, threads,
                   env, pc, call, outcome, wlog, hook_calls, ctor_calls,
                   ctor_loads, race, feed>>

\* etcd().prefix
PrefixRead ==
    /\ pc = "idle"
    /\ \E c \in {EtcdCtor([settings |-> settings, log |-> <<>>], env,
                           adapter)} :
       \E p \in {EtcdGetPrefix(c.st)} :
          /\ settings' = p.st.settings
          /\ adapter' = c.ad
          /\ acall' = [NoAdapterCall EXCEPT !.op = "prefix",
                                            !.ret = Str(p.ret)]
    /\ UNCHANGED <<last, sticky, cfg_init, reload_hooks, threads, env, pc,
                   call, outcome, wlog, hook_calls, ctor_calls, ctor_loads,
                   race, feed>>

\* etcd().load(prefix, depth)
LoadCall(prefix, depth) ==
    /\ pc = "idle"
    /\ ThreadsLeft
    /\ \E c \in {EtcdCtor([settings |-> settings, log |-> <<>>], env,
                           adapter)} :
       \E r \in {EtcdLoadResult(c.st, env, c.ad, threads, prefix, depth)} :
          /\ settings' = r.st.settings
          /\ adapter' = r.ad
          /\ threads' = r.th
          /\ acall' = [NoAdapterCall EXCEPT
                          !.op = "load", !.arg = prefix,
                          !.depth = IF depth = None THEN c.ad.inherit_depth
                                    ELSE depth,
                          !.ret = r.ret, !.fetched = r.fetched]
    /\ UNCHANGED <<last, sticky, cfg_init, reload_hooks, env, pc, call,
                   outcome, wlog, hook_calls, ctor_calls, ctor_loads, race,
                   feed>>

\* pyconfig.reload(): Config.load from its first line to its last
ReloadCall ==
    /\ pc = "idle"
    /\ ThreadsLeft
    /\ \E p \in {PluginsStage([settings |-> settings, log |-> <<>>], env)} :
       \E r \in {EtcdStage(p.st, env, adapter, threads)} :
       \E st \in {LocalStage(r.st, env)} :
          /\ ~p.raised
          /\ settings' = st.settings
          /\ wlog' = st.log
          /\ adapter' = r.ad
          /\ threads' = r.th
          /\ hook_calls' = CallReloadHooks(reload_hooks)
          /\ acall' = [NoAdapterCall EXCEPT
                          !.op = "reload",
                          !.arg = Str(EtcdGetPrefix(
                                      EtcdCtor(p.st, env, adapter).st).ret)]
    /\ call' = [op |-> "reload", clear |-> FALSE]
    /\ outcome' = "ok"
    /\ UNCHANGED <<last, sticky, cfg_init, reload_hooks, env, pc, ctor_calls,
                   ctor_loads, race, feed>>

NextEtcd ==
    \/ \E p \in PrefixArgs : SetPrefixCall(p)
    \/ PrefixRead
    \/ \E prefix \in {None, Str(<<"/", "cfg", "/">>), Str(<<"env">>)},
          depth \in {None, PyInt(0), PyInt(1)} :
           LoadCall(prefix, depth)
    \/ ReloadCall

SpecEtcd == InitEtcd /\ [][NextEtcd]_vars

-----------------------------------------------------------------------------
(* The application's calls on the store while the watcher runs              *)
(* (specification SpecWatch)                                                *)

\* the process after the first Config(), whose load started the watcher:
\* watch mode, the backend configured, PYCONFIG_ETCD_PREFIX set or not
InitWatch ==
    /\ env \in {Environment(<<>>, "", Backend(TRUE, HOSTS, RemoteA), op,
                             Str(<<"1">>)) :
                   op \in {None, Str(<<"/", "env", "/">>)}}
    /\ settings = FirstLoad(env).st.settings
    /\ last = NoCall
    /\ sticky = EmptyDict
    /\ cfg_init = TRUE
    /\ reload_hooks = <<>>
    /\ adapter = FirstLoad(env).ad
    /\ threads = FirstLoad(env).th
    /\ pc = "idle"
    /\ call = [op |-> "Config", clear |-> FALSE]
    /\ outcome = "ok"
    /\ wlog = FirstLoad(env).st.log
    /\ hook_calls = <<>>
    /\ ctor_calls = 1
    /\ ctor_loads = 1
    /\ race = NoRace
    /\ acall = NoAdapterCall
    /\ feed = NoFeed

NextWatch ==
    \/ \E p \in PrefixArgs : SetPrefixCall(p)
    \/ ClearCall
    \/ \E hook \in HookIds : AddReloadHook(hook)
    \/ \E t \in 1..MaxThreads : WatcherRun(t)
    \/ \E t \in 1..MaxThreads, event \in WatchEvents(feed.prefix) :
           WatcherEvent(t, event)

SpecWatch == InitWatch /\ [][NextWatch]_vars

-----------------------------------------------------------------------------
(* Direct calls of etcd()._parse_hosts and Config()._update                  *)
(* (specification SpecCalls)                                                *)

MaxHosts == 3

MaxBindings == 2

\* a "host:port" item of a hosts string: the host, the port and the text
HostItem(host, port, text) == [host |-> host, port |-> port, text |-> text]

RECURSIVE HostString(_)
\* ",".join(the items' texts)
HostString(items) ==
    IF Len(items) = 1 THEN items[1].text
    ELSE items[1].text \o <<",">> \o HostString(Tail(items))

\* the (host, port) pairs of the items
HostPairs(items) ==
    [j \in DOMAIN items |->
        Tuple(<<Str(items[j].host), PyInt(items[j].port)>>)]

\* the lists of up to MaxHosts items, one item written after a space
HostLists ==
    SeqsUpTo({HostItem(<<"10.0.0.1">>, 2379, <<"10.0.0.1", ":", "2379">>),
              HostItem(<<"10.0.0.2">>, 4001, <<"10.0.0.2", ":", "4001">>),
              HostItem(<<"etcd.local">>, 443,
                       <<" ", "etcd.local", ":", "443">>)},
             MaxHosts) \ {<<>>}

\* the bindings of the dictionaries _update is called with
BindingPool ==
    {Plain(<<"_", "hidden">>, PyInt(1)), Plain(<<"visible">>, PyInt(2)),
     Plain(KEY_Ab, Obj("b")),
     Binding(<<"k">>, "callable", Str(<<"v">>), <<>>),
     Binding(<<"k">>, "callable", None, <<>>),
     Binding(<<"_", "call">>, "callable", Obj("p"), <<>>),
     PrefixNamespace(Str(<<"cfg">>)),
     Binding(<<"Namespace">>, "class", None, <<>>)}

\* the process after the first Config(), about to make one call.
\* _parse_hosts is called with nothing, a hosts string, a list or a tuple of
\* pairs, or one of two strings that are no "host:port" lists; _update with
\* a dict of up to MaxBindings bindings (each name once) and a base_name, on
\* a store that is empty (after clear()), as the first Config() left it,
\* case-sensitive, or holds "k" and "ns.k"
InitCalls ==
    /\ \/ /\ acall \in {[NoAdapterCall EXCEPT !.op = "_parse_hosts",
                                             !.arg = hosts, !.done = FALSE] :
                           hosts \in {None, Str(<<"10.0.0.1">>),
                                      Str(<<"10.0.0.1", ":", "http">>)}
                               \cup {Str(HostString(items)) :
                                        items \in HostLists}
                               \cup {[t |-> "list",
                                      items |-> HostPairs(items)] :
                                        items \in HostLists}
                               \cup {Tuple(HostPairs(items)) :
                                        items \in HostLists}}
          /\ settings = FirstLoad(BareEnv).st.settings
       \/ /\ acall \in {[NoAdapterCall EXCEPT
                             !.op = "_update",
                             !.arg = [conf_dict |-> d, base_name |-> b],
                             !.done = FALSE] :
                           d \in {d \in SeqsUpTo(BindingPool, MaxBindings) :
                                    \A i, j \in DOMAIN d :
                                        i # j => d[i].name # d[j].name},
                           b \in {<<>>, <<"ns">>}}
          /\ settings \in {EmptyDict, FirstLoad(BareEnv).st.settings,
                           DictPut(EmptyDict, CASE_KEY, PyTrue),
                           DictPut(DictPut(EmptyDict, <<"k">>, Obj("old")),
                                   <<"ns", ".", "k">>, Obj("old"))}
    /\ last = NoCall
    /\ sticky = EmptyDict
    /\ cfg_init = TRUE
    /\ reload_hooks = <<>>
    /\ adapter = FirstLoad(BareEnv).ad
    /\ threads = FirstLoad(BareEnv).th
    /\ env = BareEnv
    /\ pc = "idle"
    /\ call = [op |-> "Config", clear |-> FALSE]
    /\ outcome = "ok"
    /\ wlog = <<>>
    /\ hook_calls = <<>>
    /\ ctor_calls = 1
    /\ ctor_loads = 1
    /\ race = NoRace
    /\ feed = NoFeed

\* pyconfig.etcd()._parse_hosts(hosts)
ParseHostsCall ==
    /\ acall.op = "_parse_hosts" /\ ~acall.done
    /\ \E c \in {EtcdCtor([settings |-> settings, log |-> <<>>], env,
                          adapter)} :
       \E r \in {ParseHosts(acall.arg)} :
          /\ settings' = c.st.settings
          /\ adapter' = c.ad
          /\ acall' = [acall EXCEPT !.done = TRUE, !.ret = r.ret,
                                    !.raised = r.raised]
    /\ UNCHANGED <<last, sticky, cfg_init, reload_hooks, threads, env, pc,
                   call, outcome, wlog, hook_calls, ctor_calls, ctor_loads,
                   race, feed>>

\* pyconfig.Config()._update(conf_dict, base_name)
UpdateCall ==
    /\ acall.op = "_update" /\ ~acall.done
    /\ \E st \in {Update([settings |-> settings, log |-> <<>>],
                         acall.arg.conf_dict, acall.arg.base_name,
                         [src |-> "call", idx |-> 0])} :
          /\ settings' = st.settings
          /\ wlog' = st.log
    /\ acall' = [acall EXCEPT !.done = TRUE,
                              !.invoked = UpdateInvokes(acall.arg.conf_dict,
                                                        1)]
    /\ UNCHANGED <<last, sticky, cfg_init, reload_hooks, adapter, threads,
                   env, pc, call, outcome, hook_calls, ctor_calls,
                   ctor_loads, race, feed>>

NextCalls ==
    \/ ParseHostsCall
    \/ UpdateCall

SpecCalls == InitCalls /\ [][NextCalls]_vars

-----------------------------------------------------------------------------
(* Loads over prefixes that inherit from one another                        *)
(* (specification SpecInherit)                                              *)

\* A remote store whose prefixes point at one another: "/loop/" at itself,
\* "/p/" and "/q/" at each other, "/b/" at "/a/" and "/a/" at "/c/", and
\* "/n/" holding a null pointer
RemoteD ==
    DictPut(DictPut(DictPut(DictPut(DictPut(DictPut(DictPut(NoRemote,
        <<"/", "loop", "/">>,
            <<Item(<<"/", "loop", "/", "config", ".", "inherit">>,
                   <<"/", "loop", "/">>),
              Item(<<"/", "loop", "/", "ab">>, <<"1">>)>>),
        <<"/", "p", "/">>,
            <<Item(<<"/", "p", "/", "config", ".", "inherit">>, <<"q">>),
              Item(<<"/", "p", "/", "cd">>, <<"x">>)>>),
        <<"/", "q", "/">>,
            <<Item(<<"/", "q", "/", "config", ".", "inherit">>,
                   <<"\"", "/", "p", "\"">>),
              Item(<<"/", "q", "/", "ab">>, <<"r">>)>>),
        <<"/", "b", "/">>,
            <<Item(<<"/", "b", "/", "config", ".", "inherit">>, <<"a">>),
              Item(<<"/", "b", "/", "y">>, <<"true">>)>>),
        <<"/", "a", "/">>,
            <<Item(<<"/", "a", "/", "config", ".", "inherit">>,
                   <<"/", "c", "/">>),
              Item(<<"/", "a", "/", "x">>, <<"1">>)>>),
        <<"/", "c", "/">>,
            <<Item(<<"/", "c", "/", "z">>, <<"false">>)>>),
        <<"/", "n", "/">>,
            <<Item(<<"/", "n", "/", "config", ".", "inherit">>, <<"null">>),
              Item(<<"/", "n", "/", "ab">>, <<"n">>)>>)

\* the process after the first Config(), which loaded from the prefix that
\* PYCONFIG_ETCD_PREFIX names, or from "/config/", which does not exist
InitInherit ==
    /\ env \in {Environment(<<>>, "", Backend(TRUE, HOSTS, RemoteD), op,
                            None) :
                   op \in {None, Str(<<"/", "loop", "/">>), Str(<<"p">>),
                          Str(<<"/", "b", "/">>), Str(<<"/", "n", "/">>)}}
    /\ settings = FirstLoad(env).st.settings
    /\ last = NoCall
    /\ sticky = EmptyDict
    /\ cfg_init = TRUE
    /\ reload_hooks = <<>>
    /\ adapter = FirstLoad(env).ad
    /\ threads = FirstLoad(env).th
    /\ pc = "idle"
    /\ call = [op |-> "Config", clear |-> FALSE]
    /\ outcome = "ok"
    /\ wlog = FirstLoad(env).st.log
    /\ hook_calls = <<>>
    /\ ctor_calls = 1
    /\ ctor_loads = 1
    /\ race = NoRace
    /\ acall = NoAdapterCall
    /\ feed = NoFeed

NextInherit ==
    \/ \E prefix \in {None, Str(<<"loop">>), Str(<<"/", "p", "/">>),
                      Str(<<"b">>)},
          depth \in {None, PyInt(0), PyInt(1), PyInt(2), PyInt(3)} :
           LoadCall(prefix, depth)
    \/ ReloadCall
    \/ ClearCall

SpecInherit == InitInherit /\ [][NextInherit]_vars

-----------------------------------------------------------------------------
(* A remote change while the first load is running                          *)
(* (specification SpecFeed)                                                 *)

\* Config.load, lines 170-171, to the return of etcd().load(): the watcher
\* is started and the keys are fetched, nothing is merged yet
LoadEtcdFetch ==
    /\ pc = "etcd"
    /\ cfg_init
    /\ \E c1 \in {EtcdCtor([settings |-> settings, log |-> wlog], env,
                            adapter)} :
          IF ~Configured(c1.ad)
          THEN /\ settings' = c1.st.settings
               /\ wlog' = c1.st.log
               /\ adapter' = c1.ad
               /\ pc' = "local"
               /\ UNCHANGED <<threads, acall>>
          ELSE \E c2 \in {EtcdCtor(c1.st, env, c1.ad)} :
               \E r \in {EtcdLoadResult(c2.st, env, c2.ad, threads, None,
                                        None)} :
                  /\ settings' = r.st.settings
                  /\ wlog' = r.st.log
                  /\ adapter' = r.ad
                  /\ threads' = r.th
                  /\ acall' = [NoAdapterCall EXCEPT
                                  !.op = "load", !.done = FALSE,
                                  !.ret = r.ret, !.fetched = r.fetched]
                  /\ pc' = "merge"
    /\ UNCHANGED <<last, sticky, cfg_init, reload_hooks, env, call, outcome,
                   hook_calls, ctor_calls, ctor_loads, race, feed>>

\* Config.load, lines 173-174: the mapping fetched before is merged
LoadEtcdMerge ==
    /\ pc = "merge"
    /\ LET st == IF acall.ret # None /\ acall.ret.od # <<>>
                 THEN Update([settings |-> settings, log |-> wlog],
                             AsModuleDict(acall.ret.od), <<>>,
                             [src |-> "remote", idx |-> 0])
                 ELSE [settings |-> settings, log |-> wlog]
       IN /\ settings' = st.settings
          /\ wlog' = st.log
    /\ acall' = [acall EXCEPT !.done = TRUE]
    /\ pc' = "local"
    /\ UNCHANGED <<last, sticky, cfg_init, reload_hooks, adapter, threads,
                   env, call, outcome, hook_calls, ctor_calls, ctor_loads,
                   race, feed>>

\* another client of the backend sets the key "ab" under the prefix the
\* watcher is subscribed to, once: client.eternal_watch yields the change
RemoteSet(value) ==
    /\ \E t \in DOMAIN threads : threads[t] = "watching"
    /\ feed.prefix \in DOMAIN env.remote
    /\ env.remote = RemoteA
    /\ env' = [env EXCEPT !.remote =
                  DictPut(env.remote, feed.prefix,
                          SelectSeq(env.remote[feed.prefix],
                                    LAMBDA it : it.key # feed.prefix \o KEY_ab)
                          \o <<Item(feed.prefix \o KEY_ab, value)>>)]
    /\ feed' = [feed EXCEPT !.queue =
                   Append(feed.queue,
                          Event("set", feed.prefix \o KEY_ab, value))]
    /\ UNCHANGED <<settings, last, sticky, cfg_init, reload_hooks, adapter,
                   threads, pc, call, outcome, wlog, hook_calls, ctor_calls,
                   ctor_loads, race, acall>>

\* the foreground thread inside Config.load
LoadSteps ==
    \/ LoadPluginsStep
    \/ LoadEtcdFetch
    \/ LoadEtcdMerge
    \/ LoadLocal
    \/ LoadHooks

\* the watcher thread: Watcher.run up to the subscription, then the events
\* in the order the change feed yields them
WatcherSteps ==
    \/ \E t \in 1..MaxThreads : WatcherRun(t)
    \/ \E t \in 1..MaxThreads :
          feed.queue # <<>> /\ WatcherEvent(t, Head(feed.queue))

NextFeed ==
    \/ Construct
    \/ LoadSteps
    \/ WatcherSteps
    \/ \E value \in {<<"w">>, <<"1">>} : RemoteSet(value)

\* Both threads are scheduled again and again, and the change feed yields
\* every event it holds; when the application constructs Config(), and
\* whether the remote key is ever set, is left open.
SpecFeed ==
    /\ LoadInit({Environment(ep, "", Backend(TRUE, HOSTS, RemoteA), op,
                             Str(<<"1">>)) :
                    ep \in {<<>>, <<EntryPoint(ANY, "plug_b", FALSE)>>},
                    op \in {None, Str(<<"/", "dcfg", "/">>)}})
    /\ [][NextFeed]_vars
    /\ WF_vars(LoadSteps)
    /\ WF_vars(WatcherSteps)
-----------------------------------------------------------------------------
(* Properties of the accessor calls (specification Spec) *)

\* C1: set(k, v) immediately followed by get(k) returns v, for every key k
\* (the case-policy key in any letter case included) and in either case mode.
C1_SetThenGet ==
    [][(last.op = "set" /\ last'.op = "get" /\ last'.key = last.key)
        => (~last'.raised /\ last'.ret = last.val)]_vars

\* C2 as stated: once get(k, d) has stored its default, every step that is
\* not a set() writing k's entry and not a clear() leaves get(k, d2) returning
\* d, with allow_default true or false.
C2_DefaultSticksForArgument ==
    [][\A k \in KeyArgs :
         LET n == Normalize(settings, k) IN
         (/\ n \in DOMAIN sticky
          /\ ~(last'.op = "set" /\ last'.nkey = n)
          /\ last'.op # "clear")
         => \A d2 \in SetValues, a \in BOOLEAN :
              LET r == ConfigGet(settings', k, d2, a) IN
              ~r.raised /\ r.ret = sticky[n]]_vars

\* C2 amended: get(k, d) on an absent key returns d and stores d under k as
\* normalised by the case policy in force at that call; until a set() or a
\* clear() rewrites or removes that stored entry it keeps the value d, and
\* every get() whose key normalises to it (under the policy in force at that
\* later call) returns d without raising, with allow_default true or false.
C2_DefaultSticks ==
    /\ \A n \in DOMAIN sticky : n \in DOMAIN settings /\ settings[n] = sticky[n]
    /\ (last.op = "get" /\ last.nkey \in DOMAIN sticky)
         => (~last.raised /\ last.ret = sticky[last.nkey])

\* a later get(k, allow_default=False) found the default an earlier get stored
C2_Witness ==
    /\ last.op = "get" /\ ~last.allow /\ last.key = KEY_Ab
    /\ last.nkey \in DOMAIN sticky /\ last.ret = Obj("v1")

\* C3: get(k, allow_default=False) on an absent key raises LookupError and
\* leaves the mapping unchanged; after set(k, v) the same call returns v.
C3_NoDefaultLookup ==
    [][/\ (last'.op = "get" /\ ~last'.allow /\ last'.nkey \notin DOMAIN settings)
            => (last'.raised /\ settings' = settings)
       /\ (/\ last.op = "set" /\ last.afterFail
           /\ last'.op = "get" /\ ~last'.allow /\ last'.key = last.key)
            => (~last'.raised /\ last'.ret = last.val)]_vars

\* C4: while the case policy is unset or false, set("Ab", v) or set("ab", v)
\* makes get("ab") and get("Ab") both return v; while it is true, set("Ab", v)
\* makes get("Ab") return v, and get("ab"), if "ab" was unset, still returns
\* its default (or raises when no default is allowed).
C4_CasePolicyLookup ==
    [][(last'.op = "set" /\ last'.key \in {KEY_Ab, KEY_ab})
        => \A d \in SetValues, a \in BOOLEAN :
             LET rU == ConfigGet(settings', KEY_Ab, d, a)
                 rL == ConfigGet(settings', KEY_ab, d, a)
             IN
             IF ~CaseSensitive(settings)
             THEN /\ ~rU.raised /\ rU.ret = last'.val
                  /\ ~rL.raised /\ rL.ret = last'.val
             ELSE last'.key = KEY_Ab =>
                  /\ ~rU.raised /\ rU.ret = last'.val
                  /\ KEY_ab \notin DOMAIN settings
                       => IF a THEN ~rL.raised /\ rL.ret = d ELSE rL.raised]_vars

\* set("Ab", v) was made in case-sensitive mode while "ab" is unset
C4_Witness ==
    /\ last.op = "set" /\ last.cs /\ last.key = KEY_Ab /\ last.val = Obj("v1")
    /\ KEY_ab \notin DOMAIN settings

-----------------------------------------------------------------------------
(* Remote changes and the store (specification SpecFeed) *)

\* C29: once another client has set the remote key "ab" under the watched
\* prefix to a value, and nothing changes it again, get("ab") returns that
\* value from some moment on and for ever after, also when the change falls
\* into the load that started the watcher.
C29_ChangeReachesStore ==
    \A value \in {<<"w">>, <<"1">>} :
        []((/\ feed.prefix \in DOMAIN env.remote
            /\ \E j \in DOMAIN env.remote[feed.prefix] :
                  env.remote[feed.prefix][j] =
                      Item(feed.prefix \o KEY_ab, value))
           => <>[](/\ KEY_ab \in DOMAIN settings
                   /\ settings[KEY_ab] = JsonDecode(value)))

-----------------------------------------------------------------------------
(* The case policy after clear() (specification Spec) *)

\* C30: right after clear() the store is case-insensitive again, whatever
\* the policy was before: a set("Ab", value) made then is what get("ab")
\* returns, without raising.
C30_ClearResetsCasePolicy ==
    last.op = "clear" =>
        /\ ~CaseSensitive(settings)
        /\ \A value \in SetValues :
              \E s1 \in {ConfigSet(settings, KEY_Ab, value)} :
              \E r \in {ConfigGet(s1, KEY_ab, Obj("d"), FALSE)} :
                 ~r.raised /\ r.ret = value

\* clear() was called while the policy was switched on
C30_Witness == last.op = "clear" /\ last.cs

-----------------------------------------------------------------------------
(* Properties of the load (specification SpecLoad) *)

\* C5: with no watcher running, once load() has completed, every key that
\* more than one of the four sources wrote holds the value of the source
\* that is highest in the order immediate plugins < deferred plugins <
\* remote backend < localconfig; and a key that localconfig wrote holds
\* localconfig's value.
C5_FourSourcePrecedence ==
    (/\ pc = "idle" /\ outcome = "ok"
     /\ \A t \in DOMAIN threads : ~IsAlive(threads, t)) =>
    LET Rank(src) == CASE src = "plugin" -> 1 [] src = "deferred" -> 2
                       [] src = "remote" -> 3 [] src = "local" -> 4
                       [] OTHER -> 0
        W(k) == {j \in DOMAIN wlog : wlog[j].key = k /\ Rank(wlog[j].src) > 0}
        Top(k) == CHOOSE j \in W(k) : \A i \in W(k) :
                      \/ Rank(wlog[i].src) < Rank(wlog[j].src)
                      \/ Rank(wlog[i].src) = Rank(wlog[j].src) /\ i <= j
    IN \A k \in {wlog[j].key : j \in DOMAIN wlog} :
          /\ Cardinality({wlog[j].src : j \in W(k)}) >= 2 =>
                k \in DOMAIN settings /\ settings[k] = wlog[Top(k)].val
          /\ (\E j \in W(k) : wlog[j].src = "local") =>
                k \in DOMAIN settings /\ settings[k] = wlog[Top(k)].val

\* C5 (amended): the same with the adapter as a fifth writer, between the
\* deferred plugins and the remote backend: every key written during a
\* completed load holds the value of the writer that is highest in the order
\* immediate plugins < deferred plugins < etcd.__init__ (which rewrites
\* "pyconfig.etcd.prefix") < remote backend < localconfig.
C5_PrecedenceWithAdapter ==
    (/\ pc = "idle" /\ outcome = "ok"
     /\ \A t \in DOMAIN threads : ~IsAlive(threads, t)) =>
    LET Rank(src) == CASE src = "plugin" -> 1 [] src = "deferred" -> 2
                       [] src = "adapter" -> 3 [] src = "remote" -> 4
                       [] src = "local" -> 5
        W(k) == {j \in DOMAIN wlog : wlog[j].key = k}
        Top(k) == CHOOSE j \in W(k) : \A i \in W(k) :
                      \/ Rank(wlog[i].src) < Rank(wlog[j].src)
                      \/ Rank(wlog[i].src) = Rank(wlog[j].src) /\ i <= j
    IN \A k \in {wlog[j].key : j \in DOMAIN wlog} :
          k \in DOMAIN settings /\ settings[k] = wlog[Top(k)].val

\* C5: a completed load in which all four sources wrote "ab" and localconfig
\* won, and both kinds of plugin wrote the prefix that the adapter rewrote
C5_Witness ==
    /\ pc = "idle" /\ outcome = "ok"
    /\ \A t \in DOMAIN threads : ~IsAlive(threads, t)
    /\ {"plugin", "deferred", "remote", "local"} \subseteq
           {wlog[j].src : j \in {i \in DOMAIN wlog : wlog[i].key = KEY_ab}}
    /\ settings[KEY_ab] = Obj("L")
    /\ {"plugin", "deferred", "adapter"} =
           {wlog[j].src : j \in {i \in DOMAIN wlog : wlog[i].key = PREFIX_KEY}}
    /\ settings[PREFIX_KEY] = Str(<<"/", "dcfg", "/">>)

\* C6: after a completed load, a key that a module with the deferred marker
\* and a module without it both define (and that no later stage writes)
\* holds the marked module's value, whichever was enumerated first; of two
\* marked modules the one enumerated later wins; and no key "deferred" is
\* in the store.
C6_DeferredOverrides ==
    (pc = "idle" /\ outcome = "ok") =>
    LET eps == env.entry_points
        Marked(i) == \E j \in DOMAIN RunModule(eps[i].module_name) :
                         RunModule(eps[i].module_name)[j] = Marker
        Defs(i) == Update([settings |-> EmptyDict, log |-> <<>>],
                          RunModule(eps[i].module_name), BaseName(eps[i]),
                          [src |-> "plugin", idx |-> i]).settings
        Later(k) == \E j \in DOMAIN wlog :
                        /\ wlog[j].key = k
                        /\ wlog[j].src \in {"adapter", "remote", "local"}
        Last(i, k) == ~\E j \in DOMAIN eps :
                          j > i /\ Marked(j) /\ k \in DOMAIN Defs(j)
    IN /\ \A i, j \in DOMAIN eps : Marked(i) /\ ~Marked(j) =>
             \A k \in DOMAIN Defs(i) \cap DOMAIN Defs(j) :
                 (~Later(k) /\ Last(i, k)) =>
                     k \in DOMAIN settings /\ settings[k] = Defs(i)[k]
       /\ \A i, j \in DOMAIN eps : (i < j /\ Marked(i) /\ Marked(j)) =>
             \A k \in DOMAIN Defs(i) \cap DOMAIN Defs(j) :
                 (~Later(k) /\ Last(j, k)) =>
                     k \in DOMAIN settings /\ settings[k] = Defs(j)[k]
       /\ \A k \in DOMAIN settings : k # <<>> => k[Len(k)] # "deferred"

\* C6: the marked module was enumerated first and still overrode the other
C6_Witness ==
    /\ pc = "idle" /\ outcome = "ok"
    /\ env.entry_points = <<EntryPoint(ANY, "plug_d", FALSE),
                            EntryPoint(ANY, "plug_a", FALSE)>>
    /\ env.localconfig = ""
    /\ ~env.etcd_lib
    /\ settings[KEY_ab] = Obj("d")

-----------------------------------------------------------------------------
(* Properties of construction, hooks and watcher (specification SpecLife) *)

C8_LoadedOnceByConstruction ==
    [][/\ ctor_loads' <= 1
       /\ ctor_calls' >= 1 => ctor_loads' = 1
       /\ (ctor_calls' > ctor_calls /\ ctor_calls >= 1) =>
             /\ ctor_loads' = ctor_loads
             /\ reload_hooks' = reload_hooks
             /\ pc = "idle" => (settings' = settings /\ pc' = "idle")
             /\ pc = "etcd" => pc' = "local"]_vars

\* C8: the first construction, the one made inside its load, and a later one
C8_Witness ==
    /\ call.op = "Config" /\ pc = "idle" /\ outcome = "ok"
    /\ ctor_calls = MaxCtors
    /\ ctor_loads = 1

\* C10: at most one watcher thread is alive, and a thread is started only
\* when no thread started before is alive.
C10_OneWatcherAlive ==
    [][/\ Cardinality({t \in DOMAIN threads : IsAlive(threads', t)}) <= 1
       /\ \A t \in DOMAIN threads :
             (threads[t] = "new" /\ threads'[t] # "new") =>
                 \A u \in DOMAIN threads : ~IsAlive(threads, u)]_vars

\* C10: watch mode, a reload() has completed, an earlier watcher is dead and
\* its successor is watching
C10_Witness ==
    /\ env.os_watch # None
    /\ call.op = "reload" /\ pc = "idle" /\ outcome = "ok"
    /\ threads[1] = "dead"
    /\ threads[2] = "watching"
    /\ adapter.watcher = 2

-----------------------------------------------------------------------------
(* Property of the threads (specification SpecRace) *)

\* C9: once the watcher's set(k, v) and the foreground get(k, d) on a key
\* that was absent have both completed, the store holds v under k.
C9_SetNotLost ==
    (race.g \in {"done", "raised"} /\ race.s = "done") =>
        (race.sname \in DOMAIN settings /\ settings[race.sname] = race.value)
-----------------------------------------------------------------------------
(* Properties of the adapter calls (specification SpecEtcd) *)

\* C12: etcd().load() on an adapter that is not configured (library missing
\* or no client constructed) returns an empty mapping and raises nothing.
C12_UnconfiguredLoadEmpty ==
    (acall.op = "load" /\ ~Configured(adapter)) =>
        (acall.ret = Dict(<<>>) /\ ~acall.raised)

\* C13: etcd().load() on a configured adapter whose prefix is missing in the
\* remote store returns {} after one fetch and raises nothing; a Config.load
\* that finds the prefix missing merges no remote key, goes on to merge
\* localconfig, calls the reload hooks and returns.
C13_MissingPrefixLoadsNothing ==
    /\ (/\ acall.op = "load" /\ Configured(adapter)
        /\ Head(acall.fetched) \notin DOMAIN env.remote)
          => (acall.ret = [t |-> "dict", od |-> <<>>] /\ ~acall.raised
              /\ Len(acall.fetched) = 1)
    /\ (/\ acall.op = "reload" /\ Configured(adapter)
        /\ acall.arg.s \notin DOMAIN env.remote)
          => /\ \A j \in DOMAIN wlog : wlog[j].src # "remote"
             /\ outcome = "ok"
             /\ hook_calls = reload_hooks
             /\ env.localconfig = "local_a" =>
                   /\ \E j \in DOMAIN wlog : wlog[j].src = "local"
                   /\ settings[KEY_ab] = Obj("L")

\* C13: a reload() under the prefix "/nowhere/", which the remote store does
\* not have, merged localconfig and called the hook
C13_Witness ==
    /\ acall.op = "reload" /\ Configured(adapter)
    /\ acall.arg = Str(<<"/", "nowhere", "/">>)
    /\ env.localconfig = "local_a"
    /\ settings[KEY_ab] = Obj("L")
    /\ hook_calls = <<"h1">>

\* C14: when the keys under prefix B include the inherit key pointing at
\* prefix A and the store holds no cached inherit value, load(B, d) with
\* d >= 1 returns A's keys overlaid by B's keys (the inherit key included),
\* and with d = 0 exactly B's own keys.  A prefix's own keys are its remote
\* keys with the prefix removed, in the store's letter case, with their
\* decoded values.
C14_InheritOverlay ==
    LET B == Head(acall.fetched)
        Name(item, P) ==
            IF Truthy(adapter.case_sensitive)
            THEN DropFirst(item.key, Len(P))
            ELSE Lower(DropFirst(item.key, Len(P)))
        Own(P) ==
            IF P \in DOMAIN env.remote
            THEN {<<Name(env.remote[P][j], P),
                    JsonDecode(env.remote[P][j].value)>> :
                     j \in DOMAIN env.remote[P]}
            ELSE {}
        Keys(S) == {kv[1] : kv \in S}
        Ret == {<<acall.ret.od[j].name, acall.ret.od[j].value>> :
                   j \in DOMAIN acall.ret.od}
    IN (/\ acall.op = "load" /\ Configured(adapter)
        /\ INHERIT_KEY \notin DOMAIN settings
        /\ \E kv \in Own(B) : kv[1] = INHERIT_KEY /\ kv[2].t = "str") =>
       LET ptr == CHOOSE kv \in Own(B) : kv[1] = INHERIT_KEY
           A == <<"/">> \o Strip(ptr[2].s) \o <<"/">>
       IN IF acall.depth.n = 0 THEN Ret = Own(B)
          ELSE /\ Own(B) \subseteq Ret
               /\ ptr \in Ret
               /\ \A kv \in Own(A) : kv[1] \notin Keys(Own(B)) => kv \in Ret
               /\ (acall.depth.n = 1 \/ INHERIT_KEY \notin Keys(Own(A)))
                     => Keys(Ret) = Keys(Own(A)) \cup Keys(Own(B))

\* C15 as stated: after set("pyconfig.etcd.prefix", p) the next etcd().prefix
\* returns "/" + p.strip("/") + "/" and the next etcd().load() fetches under
\* it, the client being the one that was there, whatever the environment
\* variables are.
C15_PrefixFollowsSetting ==
    [][acall.op = "set_prefix" =>
         LET want == <<"/">> \o Strip(acall.arg.s) \o <<"/">> IN
         /\ acall'.op = "prefix" =>
               (acall'.ret = Str(want) /\ adapter' = adapter)
         /\ (acall'.op = "load" /\ acall'.arg = None) =>
               /\ adapter'.init = adapter.init
               /\ adapter'.client = adapter.client
               /\ Configured(adapter') => Head(acall'.fetched) = want]_vars

\* C15 (amended): the same while PYCONFIG_ETCD_PREFIX is not set.
C15_PrefixFollowsSettingWithoutEnv ==
    [][(acall.op = "set_prefix" /\ env.os_prefix = None) =>
         LET want == <<"/">> \o Strip(acall.arg.s) \o <<"/">> IN
         /\ acall'.op = "prefix" =>
               (acall'.ret = Str(want) /\ adapter' = adapter)
         /\ (acall'.op = "load" /\ acall'.arg = None) =>
               /\ adapter'.init = adapter.init
               /\ adapter'.client = adapter.client
               /\ Configured(adapter') => Head(acall'.fetched) = want]_vars

\* C15: with PYCONFIG_ETCD_PREFIX unset, etcd().load() fetched under "/base/",
\* the normalised form of the "/base" that was set
C15_Witness ==
    /\ env.os_prefix = None
    /\ acall.op = "load" /\ acall.arg = None /\ Configured(adapter)
    /\ Head(acall.fetched) = <<"/", "base", "/">>
    /\ settings[PREFIX_KEY] = Str(<<"/", "base", "/">>)

-----------------------------------------------------------------------------
(* Properties of the watcher's writes and of clear (specification          *)
(* SpecWatch)                                                              *)

\* C11: a watch event whose action is not "set" leaves the settings mapping
\* unchanged; a "set" event changes the mapping by exactly one write, that of
\* the event's key without the prefix the feed was opened with, with the
\* decoded value.
C11_EventWritesItsKey ==
    [][\A t \in 1..MaxThreads, event \in WatchEvents(feed.prefix) :
         WatcherEvent(t, event) =>
           IF event.action # "set" THEN settings' = settings
           ELSE settings' = ConfigSet(settings,
                                      DropFirst(event.key, Len(feed.prefix)),
                                      JsonDecode(event.value))]_vars

\* C17: clear() leaves the store with no keys, so that get(k,
\* allow_default=False) raises for every k, and leaves the reload hooks as
\* they were, in content and order.
C17_ClearKeepsHooks ==
    [][ClearCall =>
         /\ DOMAIN settings' = {}
         /\ \A k \in KeyArgs \cup {PREFIX_KEY} :
               ConfigGet(settings', k, None, FALSE).raised
         /\ reload_hooks' = reload_hooks]_vars

\* C17: clear() was called with two hooks registered and keys in the store
C17_Witness ==
    /\ last.op = "clear"
    /\ settings = EmptyDict
    /\ reload_hooks = <<"h2", "h1">>

-----------------------------------------------------------------------------
(* Property of the Setting descriptor (specification Spec) *)

\* C16: each access of a Setting(name, default, allow_default) descriptor, on
\* the class or on an instance, returns what get(name, default,
\* allow_default) returns at that moment and changes the store as that get
\* does; right after a set() of its key it returns the value set; it raises
\* LookupError when allow_default is false and the key is absent.
C16_SettingReadsStore ==
    [][last'.op = "access" =>
         LET r == ConfigGet(settings, last'.key, last'.val, last'.allow) IN
         /\ last'.raised = r.raised
         /\ last'.ret = r.ret
         /\ settings' = r.settings
         /\ (last.op = "set" /\ last.nkey = last'.nkey) =>
               (~last'.raised /\ last'.ret = last.val)
         /\ (~last'.allow /\ last'.nkey \notin DOMAIN settings) =>
               (last'.raised /\ settings' = settings)]_vars

\* C16: a descriptor whose default is None returned the value that a set()
\* had stored under its key
C16_Witness ==
    /\ last.op = "access" /\ last.key = KEY_Ab /\ last.val = None
    /\ last.ret = Obj("v1")

-----------------------------------------------------------------------------
(* Properties of _parse_hosts and _update (specification SpecCalls) *)

\* C18: _parse_hosts maps a comma-separated string of n "host:port" items to
\* the tuple of the n (host, integer port) pairs in the same order, a single
\* "host:port" string to a 1-tuple, and a list or tuple of pairs to the
\* tuple of the same pairs.
C18_ParseHosts ==
    (acall.op = "_parse_hosts" /\ acall.done) =>
        \A items \in HostLists :
            LET pairs == [j \in DOMAIN items |->
                            [t |-> "tuple",
                             items |-> <<Str(items[j].host),
                                         PyInt(items[j].port)>>]]
            IN (acall.arg \in {Str(HostString(items)),
                               [t |-> "list", items |-> pairs],
                               [t |-> "tuple", items |-> pairs]})
                  => (/\ ~acall.raised
                      /\ acall.ret = [t |-> "tuple", items |-> pairs]
                      /\ Len(acall.ret.items) = Len(items))

\* C18: three hosts, one written with a space after the comma, were parsed
C18_Witness ==
    /\ acall.op = "_parse_hosts" /\ acall.done
    /\ acall.arg = Str(<<"10.0.0.1", ":", "2379", ",", " ", "etcd.local",
                         ":", "443", ",", "10.0.0.2", ":", "4001">>)
    /\ acall.ret.items[2].items = <<Str(<<"etcd.local">>), PyInt(443)>>

\* C19: _update writes no key for a binding whose name starts with an
\* underscore; it writes every other plain binding, through set(), under
\* base_name + "." + name when a base_name is given and under the bare name
\* when none is; merging {"_hidden": 1, "visible": 2} under "ns" into an
\* empty store yields exactly {"ns.visible": 2}.
C19_UpdateSkipsPrivate ==
    [][UpdateCall =>
         LET d == acall.arg.conf_dict
             base == acall.arg.base_name
             Full(b) == IF base # <<>> THEN base \o <<".">> \o b.name
                        ELSE b.name
             Written == {wlog'[i].key : i \in DOMAIN wlog'}
         IN /\ \A j \in DOMAIN d : d[j].name[1] = "_" =>
                  \A k \in Written :
                     ~StartsWith(Lower(k), Lower(Full(d[j])))
            /\ \A j \in DOMAIN d :
                  (d[j].name[1] # "_" /\ d[j].kind = "value") =>
                     /\ \E i \in DOMAIN wlog' :
                           /\ wlog'[i].val = d[j].value
                           /\ wlog'[i].key =
                                 IF CaseSensitive(settings) THEN Full(d[j])
                                 ELSE Lower(Full(d[j]))
                     /\ ConfigGet(settings', Full(d[j]), None, FALSE).ret
                           = d[j].value
            /\ (/\ settings = EmptyDict
                /\ base = <<"ns">>
                /\ d = <<Plain(<<"_", "hidden">>, PyInt(1)),
                         Plain(<<"visible">>, PyInt(2))>>)
                  => settings' = (<<"ns", ".", "visible">> :> PyInt(2))]_vars

\* C19: {"_hidden": 1, "visible": 2} was merged under "ns" into the empty
\* store
C19_Witness ==
    /\ acall.op = "_update" /\ acall.done
    /\ acall.arg.base_name = <<"ns">>
    /\ acall.arg.conf_dict = <<Plain(<<"_", "hidden">>, PyInt(1)),
                               Plain(<<"visible">>, PyInt(2))>>
    /\ settings = (<<"ns", ".", "visible">> :> PyInt(2))

\* C20: _update calls a callable value once, with no arguments; a result
\* that is not None is stored under the (prefixed) name; with a result of
\* None no key is written and what the store held under the name stays.
C20_UpdateCallsCallables ==
    [][UpdateCall =>
         LET d == acall.arg.conf_dict
             base == acall.arg.base_name
             Full(b) == IF base # <<>> THEN base \o <<".">> \o b.name
                        ELSE b.name
             Key(b) == IF CaseSensitive(settings) THEN Full(b)
                       ELSE Lower(Full(b))
         IN \A j \in DOMAIN d :
               (d[j].name[1] # "_" /\ d[j].kind = "callable") =>
                  /\ Cardinality({i \in DOMAIN acall'.invoked :
                                     acall'.invoked[i] = d[j].name}) = 1
                  /\ IF d[j].value # None
                     THEN /\ \E i \in DOMAIN wlog' :
                                /\ wlog'[i].key = Key(d[j])
                                /\ wlog'[i].val = d[j].value
                          /\ settings'[Key(d[j])] = d[j].value
                     ELSE /\ \A i \in DOMAIN wlog' : wlog'[i].key # Key(d[j])
                          /\ Key(d[j]) \in DOMAIN settings' <=>
                                Key(d[j]) \in DOMAIN settings
                          /\ Key(d[j]) \in DOMAIN settings =>
                                settings'[Key(d[j])] = settings[Key(d[j])]]_vars

\* C20: a callable "k" that returns None was merged under "ns" into a store
\* that held "ns.k", and the store still holds the old value
C20_Witness ==
    /\ acall.op = "_update" /\ acall.done
    /\ acall.arg.base_name = <<"ns">>
    /\ \E j \in DOMAIN acall.arg.conf_dict :
          acall.arg.conf_dict[j] = Binding(<<"k">>, "callable", None, <<>>)
    /\ acall.invoked = <<<<"k">>>>
    /\ <<"ns", ".", "k">> \in DOMAIN settings
    /\ settings[<<"ns", ".", "k">>] = Obj("old")

-----------------------------------------------------------------------------
(* Properties of the case policy as a stored setting (specification Spec) *)

\* C21: a set() of pyconfig.case_sensitive changes that one entry only:
\* every other entry of the mapping stays under the key and with the value it
\* was stored with; and each set, get and descriptor access normalises its
\* key argument by the policy the mapping holds when the call is made, a
\* set() writing nothing but the entry of that key.
C21_PolicySetFrame ==
    [][/\ (last'.op = "set" /\ Normalize(settings, last'.key) = CASE_KEY) =>
             /\ DOMAIN settings' = DOMAIN settings \cup {CASE_KEY}
             /\ settings'[CASE_KEY] = last'.val
             /\ \A k \in DOMAIN settings \ {CASE_KEY} :
                   settings'[k] = settings[k]
       /\ last'.op \in {"set", "get", "access"} =>
             /\ last'.nkey =
                   IF Truthy(DictGet(settings, CASE_KEY, PyFalse))
                   THEN last'.key ELSE Lower(last'.key)
             /\ \A k \in (DOMAIN settings \cup DOMAIN settings')
                            \ {last'.nkey} :
                   /\ k \in DOMAIN settings /\ k \in DOMAIN settings'
                   /\ settings'[k] = settings[k]
             /\ last'.op = "set" =>
                   /\ last'.nkey \in DOMAIN settings'
                   /\ settings'[last'.nkey] = last'.val]_vars

\* C21: the policy was switched on while the mapping held "ab" and off while
\* it held "Ab", and both entries are still there
C21_Witness ==
    /\ last.op = "set" /\ last.nkey = CASE_KEY /\ last.cs
    /\ ~CaseSensitive(settings)
    /\ KEY_ab \in DOMAIN settings /\ KEY_Ab \in DOMAIN settings
    /\ settings[KEY_ab] # settings[KEY_Ab]

-----------------------------------------------------------------------------
(* Properties of a load that meets an entry point with attributes          *)
(* (specification SpecLife)                                                *)

\* C22: when an enumerated entry point declares attributes, the load raises
\* at that entry: the only writes of the load are those of the modules
\* enumerated before it that carry no deferred marker, so no later plugin,
\* no deferred module, no remote data and no localconfig is merged; the
\* adapter is not constructed, no watcher is started and no reload hook is
\* called for that load.
C22_PluginWithAttrsAborts ==
    [][(/\ LoadPluginsStep
        /\ \E i \in DOMAIN env.entry_points : env.entry_points[i].attrs) =>
          LET bad == CHOOSE i \in DOMAIN env.entry_points :
                        /\ env.entry_points[i].attrs
                        /\ \A j \in 1..(i - 1) : ~env.entry_points[j].attrs
              Before == {i \in 1..(bad - 1) :
                            ~IsDeferred(RunModule(
                                env.entry_points[i].module_name))}
          IN /\ outcome' = "raised" /\ pc' = "idle"
             /\ hook_calls' = <<>>
             /\ adapter' = adapter /\ threads' = threads
             /\ \A i \in DOMAIN wlog' :
                   wlog'[i].src = "plugin" /\ wlog'[i].idx \in Before
             /\ DOMAIN settings' =
                   DOMAIN settings \cup {wlog'[i].key : i \in DOMAIN wlog'}
             /\ \A k \in DOMAIN settings' :
                   IF \E i \in DOMAIN wlog' : wlog'[i].key = k
                   THEN \E i \in DOMAIN wlog' :
                           /\ wlog'[i].key = k
                           /\ wlog'[i].val = settings'[k]
                   ELSE settings'[k] = settings[k]]_vars

\* C22: a reload with a hook registered raised at the second entry point;
\* the module before it was marked deferred, the backend is configured in
\* the environment and localconfig exists, and nothing was written
C22_Witness ==
    /\ pc = "idle" /\ outcome = "raised" /\ call.op = "reload"
    /\ env.entry_points = <<EntryPoint(ANY, "plug_d", FALSE),
                            EntryPoint(ANY, "plug_a", TRUE)>>
    /\ env.localconfig = "local_a" /\ env.etcd_lib
    /\ reload_hooks # <<>>
    /\ wlog = <<>> /\ hook_calls = <<>>
    /\ KEY_ab \notin DOMAIN settings

\* C27 as stated: a watcher thread that runs against an adapter that is not
\* configured ends at once, subscribes to no change feed, leaves the settings
\* mapping unchanged and raises nothing in the foreground thread.
C27_UnconfiguredWatcherExits ==
    [][\A t \in 1..MaxThreads :
         (WatcherRun(t) /\ ~(adapter'.module /\ adapter'.client)) =>
            /\ threads'[t] = "dead"
            /\ feed' = feed
            /\ settings' = settings
            /\ pc' = pc /\ outcome' = outcome]_vars

\* C27: a watcher thread that runs against an adapter that is not
\* configured ends at once, subscribes to no change feed, writes no key of
\* the remote store and raises nothing in the foreground thread.  What it
\* may change in the mapping is what the etcd() construction at line 602
\* changes: an absent prefix, case-policy, depth or watch setting gets its
\* default stored, and the prefix setting is rewritten in normalised form.
C27_UnconfiguredWatcherExitsAfterCtor ==
    [][\A t \in 1..MaxThreads :
         (WatcherRun(t) /\ ~(adapter'.module /\ adapter'.client)) =>
            /\ threads'[t] = "dead"
            /\ feed' = feed
            /\ pc' = pc /\ outcome' = outcome
            /\ DOMAIN settings \subseteq DOMAIN settings'
            /\ \A k \in DOMAIN settings' :
                  \/ k \in DOMAIN settings /\ settings'[k] = settings[k]
                  \/ /\ k \in {PREFIX_KEY, CASE_KEY, DEPTH_KEY, WATCH_KEY}
                     /\ k \notin DOMAIN settings
                     /\ settings'[k] \in {None, PyFalse}
                  \/ /\ k = PREFIX_KEY
                     /\ settings'[k].t = "str"
                     /\ settings'[k].s = NormPrefix(settings'[k].s)
                     /\ \/ /\ env.os_prefix # None
                           /\ settings'[k].s = NormPrefix(env.os_prefix.s)
                        \/ /\ env.os_prefix = None
                           /\ k \in DOMAIN settings
                           /\ settings[k].t = "str"
                           /\ settings'[k].s = NormPrefix(settings[k].s)]_vars

\* C27: a reload(clear=True) has emptied the store and not merged anything
\* yet; the watcher thread that the application started ran meanwhile
\* against the adapter, which has no backend library, and ended, and the
\* store holds the defaults its etcd() construction stored
C27_Witness ==
    /\ pc = "plugins" /\ call.op = "reload" /\ call.clear
    /\ ~env.etcd_lib /\ ~Configured(adapter)
    /\ adapter.watcher # 0 /\ threads[adapter.watcher] = "dead"
    /\ CASE_KEY \in DOMAIN settings
    /\ feed = NoFeed

-----------------------------------------------------------------------------
(* Properties of inheritance (specification SpecInherit) *)

C24_CachedPointerPreferred ==
    [][\A prefix \in {None, Str(<<"loop">>), Str(<<"/", "p", "/">>),
                      Str(<<"b">>)},
          depth \in {None, PyInt(0), PyInt(1), PyInt(2), PyInt(3)} :
          (LoadCall(prefix, depth) /\ Configured(adapter)) =>
             LET Own(P) ==
                     IF \E j \in DOMAIN env.remote[P] :
                            env.remote[P][j].key = P \o INHERIT_KEY
                     THEN JsonDecode(env.remote[P][
                              CHOOSE j \in DOMAIN env.remote[P] :
                                  env.remote[P][j].key = P \o INHERIT_KEY
                              ].value)
                     ELSE None
                 Pointer(P) ==
                     IF DictGet(settings, INHERIT_KEY, None) # None
                     THEN settings[INHERIT_KEY]
                     ELSE Own(P)
             IN \A i \in DOMAIN acall'.fetched :
                   (/\ i <= acall'.depth.n
                    /\ acall'.fetched[i] \in DOMAIN env.remote) =>
                      IF Truthy(Pointer(acall'.fetched[i]))
                      THEN /\ Len(acall'.fetched) > i
                           /\ acall'.fetched[i + 1] =
                                 NormPrefix(Pointer(acall'.fetched[i]).s)
                      ELSE Len(acall'.fetched) = i]_vars

\* C28: with the remote store unchanged and no watcher, what a load returns
\* does not depend on what earlier loads left in the store: a reload()
\* without clear merges the same remote keys and values as the load before
\* it did, also when the prefix inherits from a prefix that inherits from a
\* third, at the default depth 2.
C28_ReloadMergesSameMapping ==
    [][ReloadCall =>
         {<<wlog'[i].key, wlog'[i].val>> :
             i \in {j \in DOMAIN wlog' : wlog'[j].src = "remote"}}
       = {<<wlog[i].key, wlog[i].val>> :
             i \in {j \in DOMAIN wlog : wlog[j].src = "remote"}}]_vars

-----------------------------------------------------------------------------
(* Properties of the adapter's client (specification SpecLoad) and of the   *)
(* keys it returns (specification SpecEtcd)                                *)

\* C25: once the adapter is constructed with the backend library installed
\* and no hosts given by argument, by PYCONFIG_ETCD_HOSTS or by the setting
\* pyconfig.etcd.hosts, it has a client (for the default host) and reports
\* configured.
C25_DefaultHostClient ==
    (/\ adapter.init /\ env.etcd_lib
     /\ env.os_hosts = None
     /\ DictGet(settings, HOSTS_KEY, None) = None) => Configured(adapter)

\* C26: every key of the mapping a load returns is a remote key of a fetched
\* prefix with that prefix removed (in lower case when the store is not
\* case-sensitive): no key that was fetched under a prefix is returned with
\* the prefix still in front, whatever the letter case of the prefix.
C26_PrefixStripped ==
    (acall.op = "load" /\ Configured(adapter)) =>
        \A j \in DOMAIN acall.ret.od :
           \E P \in {acall.fetched[i] : i \in DOMAIN acall.fetched}
                       \cap DOMAIN env.remote :
              \E c \in DOMAIN env.remote[P] :
                 LET rest == DropFirst(env.remote[P][c].key, Len(P)) IN
                 /\ StartsWith(env.remote[P][c].key, P)
                 /\ acall.ret.od[j].name =
                       IF Truthy(adapter.case_sensitive) THEN rest
                       ELSE Lower(rest)

====
